---- MODULE Spec2Model ----
(***************************************************************************)
(* A model of the surf headless browser: the Browser session controller    *)
(* (history, current state, request pipeline), the browser package's       *)
(* EventDispatcher and the event package's Dispatcher.                     *)
(***************************************************************************)
EXTENDS Integers, Sequences, FiniteSets, TLC

(***************************************************************************)
(* Bounds of the model.                                                    *)
(***************************************************************************)
\* number of calls of httpRequest in a session (navigations that get as far
\* as the request pipeline)
MaxNav == 2
\* number of handlers a run registers (On and OnFunc calls)
MaxHandlers == 2
MaxEvents == 4

(***************************************************************************)
(* Event kinds: browser.EventType and event.Event (iota constants).        *)
(***************************************************************************)
PreRequestEvent == 0
PostRequestEvent == 1
ClickEvent == 2
FormSubmitEvent == 3
EventTypes == {PreRequestEvent, PostRequestEvent, ClickEvent, FormSubmitEvent}

PreRequest == 0
PostRequest == 1
Click == 2
Submit == 3
RecordPlay == 4
RecordStop == 5
RecordReplay == 6
EventKinds == {PreRequest, PostRequest, Click, Submit, RecordPlay, RecordStop, RecordReplay}

(***************************************************************************)
(* Browser attributes (iota constants).                                    *)
(***************************************************************************)
SendReferer == 0
MetaRefreshHandling == 1
FollowRedirects == 2
Attributes == {SendReferer, MetaRefreshHandling, FollowRedirects}

(***************************************************************************)
(* Errors.  An error value is a record; `by` identifies the handler that   *)
(* returned it (NoHandler for errors raised by the browser itself or by    *)
(* its collaborators).  A handler is identified by the kind it was bound   *)
(* to and its position in that kind's slice.                               *)
(***************************************************************************)
HandlerId(e, n) == [e |-> e, n |-> n]
NoHandler == HandlerId(-1, 0)
Err(kind, by) == [kind |-> kind, by |-> by]
NoErr == Err("nil", NoHandler)
HandlerError(id) == Err("HandlerError", id)

(***************************************************************************)
(* A registered handler: its identity and whether it returns an error.     *)
(***************************************************************************)
Handler(id, fails) == [id |-> id, fails |-> fails]

\* Do as it would be if the loop did not return at the first error: every
\* handler runs and the last error wins.
RECURSIVE DoAllFrom(_, _, _)
DoAllFrom(hs, i, acc) ==
    IF i > Len(hs) THEN acc
    ELSE DoAllFrom(hs, i + 1,
            [invoked |-> Append(acc.invoked, hs[i].id),
             err |-> IF hs[i].fails THEN HandlerError(hs[i].id) ELSE acc.err])

DoKeepGoing(hs) == DoAllFrom(hs, 1, [invoked |-> <<>>, err |-> NoErr])

\* The loop of Do: call the handlers in slice order, return at the first
\* error.  The result is the handlers that ran and the error returned.
RECURSIVE DoFrom(_, _, _)
DoFrom(hs, i, invoked) ==
    IF i > Len(hs) THEN [invoked |-> invoked, err |-> NoErr]
    ELSE IF hs[i].fails
         THEN [invoked |-> Append(invoked, hs[i].id), err |-> HandlerError(hs[i].id)]
         ELSE DoFrom(hs, i + 1, Append(invoked, hs[i].id))

DoHandlers(hs) == DoFrom(hs, 1, <<>>)

\* browser.EventDispatcher.Do: range over handlers[e.Type].
EventDispatcherDo(hm, e) == DoHandlers(hm[e])

\* event.Dispatcher.Do: range over handlers[event].
DispatcherDo(hm, e) == DoHandlers(hm[e])

\* append(handlers[e], handler), the body of On and OnFunc.  The handler
\* appended is identified by its kind and its position.
AppendHandler(hm, e, fails) ==
    [hm EXCEPT ![e] = Append(@, Handler(HandlerId(e, Len(@) + 1), fails))]

\* make(map[EventType][]EventHandler): no handler bound to any kind.
NoHandlers(kinds) == [e \in kinds |-> <<>>]

\* The number of handlers bound in a handler map.
RECURSIVE CountHandlers(_, _)
CountHandlers(hm, kinds) ==
    IF kinds = {} THEN 0
    ELSE LET e == CHOOSE x \in kinds : TRUE
         IN Len(hm[e]) + CountHandlers(hm, kinds \ {e})


(***************************************************************************)
(* URLs, the server and its documents.                                     *)
(***************************************************************************)
Page1 == "http://h/page1"
Page2 == "http://h/page2"
\* a URL the server answers with a redirect to Page2
Moved == "http://h/old"
\* a string url.Parse rejects (invalid escape)
BadUrl == "%zz"
\* the strings the caller passes to Open and to Post
OpenInputs == {Page1, Moved, BadUrl}
PostInputs == {Page1, BadUrl}

\* url.Parse(u) returns no error.
UrlParses(u) == u # BadUrl
\* The *url.URL url.Parse(u) returns for a string without a query: the URL up
\* to its path, and its RawQuery as a sequence of encoded pairs.
UrlParse(u) == [url |-> u, query |-> <<>>]

\* The Location of the server's redirect answer for u ("" when the server
\* serves u itself).
Location(u) == IF u = Moved THEN Page2 ELSE ""

\* A page on another host, which an anchor of FormPage points to.
Outside == "http://g/out"
\* A page with forms.
FormPage == "http://h/form"
Page3 == "http://h/page3"
\* The image of htmlPage1 that is on another host.
ImageUrl == "http://i.imgur.com/HW4bJtY.jpg"

(***************************************************************************)
(* Documents.  An element is its tag, the set of attributes it has, the    *)
(* values of its id and href attributes and its text.  A form is the       *)
(* attributes of its form tag and its controls in document order; a        *)
(* control is its tag, the attributes it has, its name, type and value,    *)
(* the values of its selected options (a select) and its text (a           *)
(* textarea).                                                              *)
(***************************************************************************)
Elem(tag, has, id, href, text) ==
    [tag |-> tag, has |-> has, id |-> id, href |-> href, text |-> text]
Control(tag, has, name, type, value) ==
    [tag |-> tag, has |-> has, name |-> name, type |-> type, value |-> value,
     selected |-> <<>>, text |-> ""]
\* An <img>: an element that also has src, alt and title.
Img(has, id, src, alt, title) ==
    [tag |-> "img", has |-> has, id |-> id, href |-> "", text |-> "",
     src |-> src, alt |-> alt, title |-> title]
FormElem(has, method, action, controls) ==
    [has |-> has, method |-> method, action |-> action, controls |-> controls]

\* <form> of FormPage with neither method nor action: a text input q and a
\* submit button whose name is the empty string.
SearchForm ==
    FormElem({}, "", "",
             << Control("input", {"name", "type", "value"}, "q", "text", "old"),
                Control("input", {"name", "type", "value"}, "", "submit", "S") >>)
\* <form method="post" action="/page1"> of FormPage: a text input user, a
\* checked checkbox keep, a submit button go and a submit button that has
\* the name of the text input.
LoginForm ==
    FormElem({"method", "action"}, "post", "/page1",
             << Control("input", {"name", "type", "value"}, "user", "text", "joe"),
                Control("input", {"name", "type", "value", "checked"}, "keep", "checkbox", "1"),
                Control("input", {"name", "type", "value"}, "go", "submit", "Go"),
                Control("input", {"name", "type"}, "user", "submit", "") >>)
\* <form action="/page2"> of FormPage without a button.
PlainForm ==
    FormElem({"action"}, "", "/page2",
             << Control("input", {"name", "type"}, "q", "text", "") >>)
\* <form> of FormPage with a select followed by an input that has a name
\* and a value but no type attribute.
BareForm ==
    FormElem({}, "", "",
             << Control("select", {"name"}, "keep", "", ""),
                Control("input", {"name", "value"}, "q", "", "old") >>)

NoDom == [title |-> "", body |-> "", refresh |-> "", elems |-> <<>>, forms |-> <<>>]
\* The document the server serves at u: the text of its title, the html of
\* its body, the content of its meta refresh tag ("" when the page has
\* none), the elements of its body that are no forms, and its forms.
Document(u) ==
    IF u = Page1
    THEN [title |-> "Surf Page 1",
          body |-> "<p>Hello, Surf!</p><a href=\"/page2\">click</a>", refresh |-> "",
          elems |-> << Elem("p", {}, "", "", "Hello, Surf!"),
                       Elem("a", {"href"}, "", "/page2", "click"),
                       Elem("a", {"href", "id"}, "page3", "/page3", "no clicking"),
                       Img({"src", "id", "title"}, "imgur-image", ImageUrl, "", "It's a..."),
                       Img({"src", "alt"}, "", "/Cxagv.jpg", "A picture", "") >>,
          forms |-> <<>>]
    ELSE IF u = Page2
    THEN [title |-> "Surf Page 2", body |-> "<p>Hello, Surf!</p>", refresh |-> "5",
          elems |-> << Elem("p", {}, "", "", "Hello, Surf!") >>, forms |-> <<>>]
    ELSE IF u = FormPage
    THEN [title |-> "Surf Form", body |-> "<form>", refresh |-> "",
          elems |-> << Elem("a", {"id"}, "nohref", "", "top"),
                       Elem("p", {}, "", "", "Hello, Surf!"),
                       Elem("a", {"href", "id"}, "out", Outside, "out"),
                       Elem("a", {"href", "id"}, "bad", BadUrl, "bad"),
                       Img({"alt"}, "", "", "no src", "") >>,
          forms |-> <<SearchForm, LoginForm, PlainForm, BareForm>>]
    ELSE NoDom

NoResp == [status |-> 0, url |-> ""]
Response(u) == [status |-> 200, url |-> u]

BookmarkNames == {"test1"}
\* bodies a caller posts: url-encoded pairs, as <<name, value>> in order
PostBodies == {<< <<"a", "1">> >>}

(***************************************************************************)
(* http.Header: a map from a header name to the values added under it.     *)
(***************************************************************************)
HeaderNames == {"User-Agent", "Referer", "Authorization", "Content-Type", "X-Testing-1"}
EmptyHeader == [n \in HeaderNames |-> <<>>]
HeaderAdd(h, name, value) == [h EXCEPT ![name] = Append(@, value)]
\* Header.Get(name): the first value under the name, "" when there is none.
HeaderGet(h, name) == IF h[name] = <<>> THEN "" ELSE h[name][1]

(***************************************************************************)
(* jar.State and the history jar.  A State holds its request, its response *)
(* and its document; id is the identity of the State value.  A request     *)
(* holds a pointer to its header map (an index into hdrHeap) and what is    *)
(* left to read of its body; NilRequest is the nil *http.Request.  A       *)
(* request is sent, and its body consumed, before a State holds it.  The   *)
(* query of its URL and its body are sequences of encoded <<name, value>>  *)
(* pairs.                                                                  *)
(***************************************************************************)
NilRequest == [method |-> "", url |-> "", query |-> <<>>, hdr |-> 0, body |-> <<>>]
NewHistoryState(id, req, resp, dom) == [id |-> id, req |-> req, resp |-> resp, dom |-> dom]
\* &jar.State{}: the state of a browser that has loaded no page
EmptyState == NewHistoryState(0, NilRequest, NoResp, NoDom)
NilState == NewHistoryState(-1, NilRequest, NoResp, NoDom)

HistoryLen(h) == Len(h)
HistoryPush(h, s) == Append(h, s)
HistoryTop(h) == IF Len(h) > 0 THEN h[Len(h)] ELSE NilState
\* Pop: removes and returns the top when more than one element remains.
HistoryPop(h) ==
    IF Len(h) > 1
    THEN [state |-> h[Len(h)], rest |-> SubSeq(h, 1, Len(h) - 1), ok |-> TRUE]
    ELSE [state |-> NilState, rest |-> h, ok |-> FALSE]

(***************************************************************************)
(* url.Values: for each name the values added under it (<<>> for a name    *)
(* that is no key).                                                        *)
(***************************************************************************)
\* The names of the controls of the model's forms, and "nope", which is the
\* name of none; in the order sort.Strings gives them.
SortedNames == <<"", "go", "keep", "nope", "q", "user">>
Names == {SortedNames[i] : i \in 1..Len(SortedNames)}
\* The values a caller inputs.
InputValues == {"new", "a b"}

EmptyValues == [n \in Names |-> <<>>]
ValuesAdd(v, name, value) == [v EXCEPT ![name] = Append(@, value)]
ValuesSet(v, name, value) == [v EXCEPT ![name] = <<value>>]
ValuesLen(v) == Cardinality({n \in Names : v[n] # <<>>})

\* url.QueryEscape: a space becomes "+".
QueryEscape(x) == IF x = "a b" THEN "a+b" ELSE x

\* Values.Encode: the pairs name=value, sorted by name, each escaped.
RECURSIVE EncodeFrom(_, _)
EncodeFrom(v, i) ==
    IF i > Len(SortedNames) THEN <<>>
    ELSE LET n == SortedNames[i]
         IN [j \in 1..Len(v[n]) |-> <<QueryEscape(n), QueryEscape(v[n][j])>>]
            \o EncodeFrom(v, i + 1)
Encode(v) == EncodeFrom(v, 1)

\* strings.ToUpper, on the method attributes of the model's forms.
ToUpper(x) == IF x = "post" THEN "POST" ELSE IF x = "get" THEN "GET" ELSE x

(***************************************************************************)
(* URL resolution.                                                         *)
(***************************************************************************)
\* The references that are absolute URLs.
IsAbs(ref) == ref \in {Page1, Page2, Page3, Moved, FormPage, Outside, ImageUrl}
\* Scheme and host of an absolute URL.
Origin(u) == IF u = Outside THEN "http://g" ELSE "http://h"
\* base.ResolveReference(ref): an absolute reference as it is, a reference
\* that is a path on the host of base; the query is that of the reference.
ResolveReference(base, ref) ==
    IF IsAbs(ref.url) THEN ref
    ELSE [url |-> Origin(base.url) \o ref.url, query |-> ref.query]
\* Browser.Url of a State: the URL of its request.
Url(s) == [url |-> s.req.url, query |-> s.req.query]
\* Browser.ResolveUrl(u) when s is the current State.
ResolveUrl(s, u) == ResolveReference(Url(s), u)

\* URL.String() of a query: the pairs joined by "&".
RECURSIVE QueryString(_)
QueryString(q) ==
    IF q = <<>> THEN ""
    ELSE q[1][1] \o "=" \o q[1][2]
         \o (IF Len(q) > 1 THEN "&" \o QueryString(Tail(q)) ELSE "")
\* URL.String().
UrlString(u) == IF u.query = <<>> THEN u.url ELSE u.url \o "?" \o QueryString(u.query)

(***************************************************************************)
(* Selections: bow.Find(expr) on the elements of the current document.     *)
(***************************************************************************)
\* The selectors a caller clicks on.
Exprs == {"a", "a:contains('click')", "#page3", "p", "p,a", "#none", "#nohref",
          "#out", "#bad"}
\* The text contains "click".
ContainsClick(text) == text \in {"click", "no clicking"}
\* The element matches the selector.
Matches(expr, el) ==
    CASE expr = "a" -> el.tag = "a"
      [] expr = "a:contains('click')" -> el.tag = "a" /\ ContainsClick(el.text)
      [] expr = "p" -> el.tag = "p"
      [] expr = "p,a" -> el.tag \in {"p", "a"}
      [] expr = "img" -> el.tag = "img"
      [] expr = "#page3" -> "id" \in el.has /\ el.id = "page3"
      [] expr = "#nohref" -> "id" \in el.has /\ el.id = "nohref"
      [] expr = "#out" -> "id" \in el.has /\ el.id = "out"
      [] expr = "#bad" -> "id" \in el.has /\ el.id = "bad"
      [] OTHER -> FALSE
\* bow.Find(expr): the matching elements, in document order.
Find(dom, expr) ==
    LET Test(el) == Matches(expr, el)
    IN SelectSeq(dom.elems, Test)
\* Is as it would be if it looked at no element.
IsAlways(sel, tag) == TRUE
\* sel.Is(tag): some element of the selection has the tag.
Is(sel, tag) == \E i \in 1..Len(sel) : sel[i].tag = tag
\* sel.Attr("href") found the attribute: it is read of the first element.
HasHref(sel) == "href" \in sel[1].has
\* attrToResolvedUrl as it would be if it returned the attribute unresolved.
hrefUnresolved(s, sel) == UrlParse(sel[1].href)
\* attrToResolvedUrl("href", sel) when it returns no error: the attribute of
\* the first element, parsed and resolved against the URL of the State s.
attrToResolvedUrl(s, sel) == ResolveUrl(s, UrlParse(sel[1].href))

\* sel.Attr(name) of the element el, which has the attribute.
Attr(name, el) ==
    CASE name = "id" -> el.id
      [] name = "href" -> el.href
      [] name = "src" -> el.src
      [] name = "alt" -> el.alt
      [] name = "title" -> el.title
\* attrOrDefault(name, def, sel).
attrOrDefault(name, def, el) == IF name \in el.has THEN Attr(name, el) ELSE def
\* attrToResolvedUrl(name, sel) returns no error: the element has the
\* attribute and url.Parse accepts its value.
attrResolves(name, el) == name \in el.has /\ UrlParses(Attr(name, el))

NewLinkAsset(u, id, text) == [URL |-> u, ID |-> id, Text |-> text]
NewImageAsset(u, id, alt, title) == [URL |-> u, ID |-> id, Alt |-> alt, Title |-> title]

\* Links as it would be if it left the URLs as they are written in the page.
LinksUnresolved(s) ==
    LET Ok(el) == attrResolves("href", el)
        sel == SelectSeq(Find(s.dom, "a"), Ok)
    IN [i \in 1..Len(sel) |->
           NewLinkAsset(UrlParse(sel[i].href), attrOrDefault("id", "", sel[i]), sel[i].text)]

\* Browser.Links when s is the current State: Each element found by "a"
\* for which attrToResolvedUrl returns no error appends a Link.
Links(s) ==
    LET Ok(el) == attrResolves("href", el)
        sel == SelectSeq(Find(s.dom, "a"), Ok)
    IN [i \in 1..Len(sel) |->
           NewLinkAsset(attrToResolvedUrl(s, <<sel[i]>>), attrOrDefault("id", "", sel[i]),
                        sel[i].text)]

\* Browser.Images when s is the current State.
Images(s) ==
    LET Ok(el) == attrResolves("src", el)
        sel == SelectSeq(Find(s.dom, "img"), Ok)
    IN [i \in 1..Len(sel) |->
           NewImageAsset(ResolveUrl(s, UrlParse(sel[i].src)), attrOrDefault("id", "", sel[i]),
                         attrOrDefault("alt", "", sel[i]), attrOrDefault("title", "", sel[i]))]

(***************************************************************************)
(* Forms.                                                                  *)
(***************************************************************************)
\* stringInSlice(a, list).
stringInSlice(a, list) == \E i \in 1..Len(list) : list[i] = a

\* One step of the first Each of serializeForm, on an input or button.
serializeInput(acc, c) ==
    IF "name" \notin c.has \/ "type" \notin c.has THEN acc
    ELSE IF c.type = "submit"
    THEN [acc EXCEPT !.buttons =
             ValuesAdd(@, c.name, IF "value" \in c.has THEN c.value ELSE "")]
    ELSE IF c.type \in {"radio", "checkbox"}
    THEN [acc EXCEPT !.definedFields = Append(@, c.name),
                     !.fields = IF "checked" \in c.has /\ "value" \in c.has
                                THEN ValuesAdd(@, c.name, c.value) ELSE @]
    ELSE [acc EXCEPT !.definedFields = Append(@, c.name),
                     !.fields = IF "value" \in c.has
                                THEN ValuesAdd(@, c.name, c.value) ELSE @]

RECURSIVE AddEach(_, _, _)
AddEach(v, name, values) ==
    IF values = <<>> THEN v
    ELSE AddEach(ValuesAdd(v, name, Head(values)), name, Tail(values))

\* One step of the second Each, on a select.
serializeSelect(acc, c) ==
    IF "name" \notin c.has THEN acc
    ELSE [acc EXCEPT !.definedFields = Append(@, c.name),
                     !.fields = AddEach(@, c.name, c.selected)]

\* One step of the third Each, on a textarea.
serializeTextarea(acc, c) ==
    IF "name" \notin c.has THEN acc
    ELSE [acc EXCEPT !.definedFields = Append(@, c.name),
                     !.fields = ValuesAdd(@, c.name, c.text)]

\* The three passes of serializeForm over the controls of the form.
RECURSIVE serializeEach(_, _, _, _)
serializeEach(acc, controls, i, pass) ==
    IF i > Len(controls) THEN acc
    ELSE LET c == controls[i]
             next == IF pass = "input" /\ c.tag \in {"input", "button"}
                     THEN serializeInput(acc, c)
                     ELSE IF pass = "select" /\ c.tag = "select"
                     THEN serializeSelect(acc, c)
                     ELSE IF pass = "textarea" /\ c.tag = "textarea"
                     THEN serializeTextarea(acc, c)
                     ELSE acc
         IN serializeEach(next, controls, i + 1, pass)

serializeForm(sel) ==
    LET a0 == [definedFields |-> <<>>, fields |-> EmptyValues, buttons |-> EmptyValues]
        a1 == serializeEach(a0, sel.controls, 1, "input")
        a2 == serializeEach(a1, sel.controls, 1, "select")
    IN serializeEach(a2, sel.controls, 1, "textarea")

\* The action of a form element, parsed: its action attribute, or the URL
\* of the current State s.
formAction(s, sel) ==
    IF "action" \in sel.has THEN UrlParse(sel.action) ELSE Url(s)
formActionParses(sel) == "action" \notin sel.has \/ UrlParses(sel.action)
formMethod(sel) == IF "method" \in sel.has THEN sel.method ELSE "GET"

\* formAttributes(bow, s): the method in upper case and the resolved action.
NoUrl == [url |-> "", query |-> <<>>]
formAttributes(s, sel) ==
    IF ~formActionParses(sel) THEN [method |-> "", action |-> NoUrl]
    ELSE [method |-> ToUpper(formMethod(sel)),
          action |-> ResolveUrl(s, formAction(s, sel))]

\* The last call of Input on a Form: none yet.
NoInput == [name |-> "", value |-> "", err |-> "none"]

\* NewForm(bow, s): the Form built from form element sel of the State s.
\* made and input observe the Form: the State it was derived from and the
\* last call of Input on it.
NewForm(s, sel) ==
    [selection |-> sel,
     method |-> formAttributes(s, sel).method,
     action |-> formAttributes(s, sel).action,
     definedFields |-> serializeForm(sel).definedFields,
     fields |-> serializeForm(sel).fields,
     buttons |-> serializeForm(sel).buttons,
     made |-> s.id, input |-> NoInput]
NoForm ==
    [selection |-> FormElem({}, "", "", <<>>), method |-> "", action |-> NoUrl,
     definedFields |-> <<>>, fields |-> EmptyValues, buttons |-> EmptyValues,
     made |-> -1, input |-> NoInput]

\* Browser.Forms when s is the current State: nil for a page without forms;
\* otherwise make([]Submittable, len) makes len nil entries and each form
\* found is appended after them.  NoForm stands for a nil entry.
Forms(s) ==
    LET sel == s.dom.forms
    IN IF Len(sel) = 0 THEN <<>>
       ELSE [i \in 1..Len(sel) |-> NoForm] \o [i \in 1..Len(sel) |-> NewForm(s, sel[i])]

(***************************************************************************)
(* The state of the program.                                               *)
(***************************************************************************)
VARIABLES
    state,       \* Browser.state: the current State
    history,     \* Browser.history: the stack of States, most recent last
    headers,     \* Browser.headers: a pointer to a header map (index into hdrHeap)
    hdrHeap,     \* the http.Header maps allocated so far
    nnav,        \* the number of calls of httpRequest so far
    userAgent,   \* Browser.userAgent
    auth,        \* Browser.auth
    attributes,  \* Browser.attributes
    refresh,     \* Browser.refresh: "nil", or the timer: "running", "stopped"
                 \* or "fired"
    bookmarks,   \* the bookmarks jar: name -> URL ("" when not saved)
    marked,      \* for each name: the URL of the page that was current when
                 \* Bookmark last saved it ("" when it never did)
    backed,      \* the last Back that returned true: the State it left, the
                 \* State it restored, and what has happened since
    events,      \* Browser.events.handlers (browser.EventDispatcher)
    dispatcher,  \* event.Dispatcher.handlers
    pc,          \* the position of the caller inside httpRequest, or "idle"
    frame,       \* the locals of the httpRequest in progress
    ncommit,     \* the number of States created so far
    call,        \* what the call in progress (or the last call) did
    prev,        \* the call completed before it
    pred,        \* for each State created: the State that was current then
    session,     \* the shape of the session so far (navigations, then Backs)
    dlog,        \* the last dispatch made directly on a dispatcher
    form,        \* the Form the caller holds (NoForm when it holds none)
    who,         \* whose httpRequest pc, frame and call are those of: the
                 \* caller's ("caller") or the refresh goroutine's ("timer")
    other,       \* the pc, frame and call of the other of the two
    ret,         \* what the last call of Forms, Links or Images returned
    recorder,    \* a MemoryRecorder: its requests and its recording flag
    rlog         \* what happened to the recorder: the calls of Start, Stop
                 \* and HandleEvent in order, and what the last Replay
                 \* dispatched and returned

vars == <<state, history, headers, hdrHeap, nnav, userAgent, auth, form, attributes,
          refresh, bookmarks, marked, backed, recorder, rlog, who, other, ret, events, dispatcher, pc, frame, ncommit, call, prev,
          pred, session, dlog>>

browserVars == <<state, history, headers, hdrHeap, nnav, userAgent, auth, form,
                 attributes, refresh, bookmarks, marked, backed, recorder, rlog, who, other, ret, pc, frame, ncommit, pred>>

\* No Back has returned true yet.
NoBack == [stage |-> "none", left |-> NilState, restored |-> NilState]

\* The navigations a session may start: MaxNav, and one more for each name
\* Bookmark has saved, so that a bookmark can be opened after navigations
\* that followed its saving.
NavBound == MaxNav + Cardinality({n \in BookmarkNames : marked[n] # ""})

NoFrame == [req |-> NilRequest, resp |-> NoResp, dom |-> NoDom]

\* The record of a call: the operation and its argument, the history and
\* the current state and the caller's Form when it began, the pipeline steps it took, the handlers
\* it invoked (with the State that was current at the invocation), the
\* requests it handed to the transport, the server's answer to the first
\* ("ok", "redirect" or "error", "" while there is none), the URLs fetched
\* while following redirects, its result, and whether it has returned.
Begin(op, arg) ==
    [op |-> op, arg |-> arg, h0 |-> history, s0 |-> state, f0 |-> form, trace |-> <<>>,
     calls |-> <<>>, sent |-> <<>>, answer |-> "", followed |-> <<>>,
     result |-> NoErr, done |-> FALSE]
Return(c, err) == [c EXCEPT !.result = err, !.done = TRUE]
Step(c, name) == [c EXCEPT !.trace = Append(@, name)]

Navigations == {"Open", "OpenBookmark", "Post", "Reload"}
\* The errors of a navigation that are not errors of an event handler.
NavigationErrors == {"URLParseError", "BookmarkNotFound", "TransportError",
                     "LocationError", "ParseError"}

\* What is kept of a call once the next one begins: for an Open that
\* returned no error, what it sent; for a navigation whose post-request
\* handler returned an error, the State that was current before it; for a
\* navigation that failed otherwise, that it did; for a Click that returned
\* no error, the State it clicked from and what it sent.
NoSummary == [kind |-> "none", sent |-> <<>>, s0 |-> EmptyState]
Summary(c) ==
    IF c.op = "Open" /\ c.result = NoErr
    THEN [NoSummary EXCEPT !.kind = "open", !.sent = c.sent]
    ELSE IF c.op \in Navigations /\ c.result.kind = "HandlerError"
            /\ c.result.by.e = PostRequestEvent
    THEN [NoSummary EXCEPT !.kind = "postfailed", !.s0 = c.s0]
    ELSE IF c.op \in Navigations /\ c.result.kind \in NavigationErrors
    THEN [NoSummary EXCEPT !.kind = "failed"]
    ELSE IF c.op = "Click" /\ c.result = NoErr
    THEN [NoSummary EXCEPT !.kind = "clicked", !.s0 = c.s0, !.sent = c.sent]
    ELSE NoSummary
\* The record of a call that is no navigation and no Back.
Configured ==
    [op |-> "configure", arg |-> "", h0 |-> <<>>, s0 |-> EmptyState, f0 |-> NoForm,
     trace |-> <<>>,
     calls |-> <<>>, sent |-> <<>>, answer |-> "", followed |-> <<>>,
     result |-> NoErr, done |-> TRUE]

\* The invocations a dispatch adds to the record of a call: for each handler
\* called, the Type, Args and Browser of the Event it was handed, and the
\* State that was current then.
Invocations(e, invoked, cur, args) ==
    [i \in 1..Len(invoked) |->
        [kind |-> e, id |-> invoked[i], cur |-> cur, args |-> args, browser |-> "bow"]]

\* What the transport is handed: the request as it is when it is sent.
Snapshot(r) ==
    [method |-> r.method, url |-> r.url, query |-> r.query,
     header |-> IF r.hdr = 0 THEN EmptyHeader ELSE hdrHeap[r.hdr], body |-> r.body]

\* NewMemoryRecorder(): no requests, not recording.
NewMemoryRecorder == [requests |-> <<>>, recording |-> FALSE]

\* What is known of the recorder when no Replay has run since the calls
\* in log.
NoReplay(log) == [log |-> log, dispatched |-> <<>>, err |-> NoErr, done |-> FALSE]

\* No httpRequest of the other of the two is in progress.
NoOther == [pc |-> "idle", frame |-> NoFrame, call |-> Configured]

(***************************************************************************)
(* The session after construction: no page loaded, an empty history, an    *)
(* empty header map, every attribute on, no handler bound.                 *)
(***************************************************************************)
Init ==
    /\ state = EmptyState
    /\ history = <<>>
    /\ headers = 1
    /\ hdrHeap = <<EmptyHeader>>
    /\ nnav = 0
    /\ userAgent = "Surf/1.0"
    /\ auth = [Username |-> "", Password |-> ""]
    /\ attributes = [a \in Attributes |-> TRUE]
    /\ refresh = "nil"
    /\ bookmarks = [n \in BookmarkNames |-> ""]
    /\ marked = [n \in BookmarkNames |-> ""]
    /\ backed = NoBack
    /\ events = NoHandlers(EventTypes)
    /\ dispatcher = NoHandlers(EventKinds)
    /\ pc = "idle"
    /\ frame = NoFrame
    /\ ncommit = 0
    /\ call = [op |-> "none", arg |-> "", h0 |-> <<>>, s0 |-> EmptyState, f0 |-> NoForm,
               trace |-> <<>>, calls |-> <<>>, sent |-> <<>>, answer |-> "",
               followed |-> <<>>, result |-> NoErr, done |-> TRUE]
    /\ prev = NoSummary
    /\ pred = <<>>
    /\ session = [mode |-> "navs", backs |-> 0, made |-> <<>>]
    /\ form = NoForm
    /\ who = "caller"
    /\ other = NoOther
    /\ ret = <<>>
    /\ recorder = NewMemoryRecorder
    /\ rlog = NoReplay(<<>>)
    /\ dlog = [on |-> "none", kind |-> -1, bound |-> <<>>, invoked |-> <<>>,
               err |-> NoErr]

\* The shape of the session after a navigation returned err: a session of
\* successful navigations stays so only while every navigation succeeds.
OtherSession == [mode |-> "other", backs |-> 0, made |-> <<>>]
AfterNavigation(err) ==
    IF session.mode = "navs" /\ err = NoErr THEN session ELSE OtherSession

\* The shape of the session after a State was created: a session of
\* successful navigations remembers the States they made.
AfterPush(new) ==
    IF session.mode = "navs" THEN [session EXCEPT !.made = Append(@, new)]
    ELSE OtherSession

\* The shape of the session after a call to Back: Backs that follow N >= 1
\* successful navigations are counted, up to the N-th.
AfterBack ==
    IF session.mode \in {"navs", "backs"} /\ session.backs < Len(session.made)
    THEN [session EXCEPT !.mode = "backs", !.backs = @ + 1]
    ELSE OtherSession

\* A call that returns err without reaching httpRequest.
Fail(op, arg, err) ==
    /\ call' = Return(Begin(op, arg), err)
    /\ prev' = Summary(call)
    /\ session' = AfterNavigation(err)
    /\ UNCHANGED <<browserVars, events, dispatcher, dlog>>

(***************************************************************************)
(* buildRequest: req.Header = bow.headers, then the User-Agent, Referer    *)
(* and Authorization headers are added to req.Header, which is the map     *)
(* bow.headers points to.  ref is "" for a nil referer.                    *)
(***************************************************************************)
\* base64.StdEncoding.EncodeToString([]byte(username + ":" + password)); the
\* encoding is written b64(...).
basicAuth(username, password) == "b64(" \o username \o ":" \o password \o ")"

buildHeader(h, ref) ==
    LET h1 == HeaderAdd(h, "User-Agent", userAgent)
        h2 == IF attributes[SendReferer] /\ ref # ""
              THEN HeaderAdd(h1, "Referer", ref) ELSE h1
    IN IF auth.Username # ""
       THEN HeaderAdd(h2, "Authorization",
                      "Basic " \o basicAuth(auth.Username, auth.Password))
       ELSE h2

buildRequest(method, u, body) ==
    [method |-> method, url |-> u.url, query |-> u.query, hdr |-> headers, body |-> body]

\* httpGET and httpPOST up to their call of httpRequest: build the request
\* (httpPOST then sets the body and adds Content-Type) and enter httpRequest.
httpStartFrom(c, method, u, ref, contentType, body) ==
    /\ nnav < NavBound
    /\ hdrHeap' = [hdrHeap EXCEPT ![headers] =
                      IF method = "POST"
                      THEN HeaderAdd(buildHeader(@, ref), "Content-Type", contentType)
                      ELSE buildHeader(@, ref)]
    /\ nnav' = nnav + 1
    /\ frame' = [NoFrame EXCEPT !.req = buildRequest(method, u, body)]
    /\ pc' = "pre"
    /\ call' = c
    /\ prev' = Summary(call)
    /\ UNCHANGED <<state, history, headers, userAgent, auth, form, attributes, refresh,
                   bookmarks, marked, backed, recorder, rlog, who, other, ret, ncommit, pred, session, events, dispatcher, dlog>>

httpStart(op, arg, method, u, ref, contentType, body) ==
    httpStartFrom(Begin(op, arg), method, u, ref, contentType, body)

\* Open(u): url.Parse, then httpGET(ur, nil).
Open(u) ==
    /\ pc = "idle"
    /\ IF UrlParses(u)
       THEN httpStart("Open", u, "GET", UrlParse(u), "", "", <<>>)
       ELSE Fail("Open", u, Err("URLParseError", NoHandler))

\* OpenBookmark(name): bookmarks.Read(name), then Open(url).
OpenBookmark(name) ==
    /\ pc = "idle"
    /\ IF bookmarks[name] = ""
       THEN Fail("OpenBookmark", name, Err("BookmarkNotFound", NoHandler))
       ELSE IF UrlParses(bookmarks[name])
            THEN httpStart("OpenBookmark", name, "GET", UrlParse(bookmarks[name]), "", "", <<>>)
            ELSE Fail("OpenBookmark", name, Err("URLParseError", NoHandler))

\* Post(u, contentType, body): url.Parse, then httpPOST(ur, nil, contentType, body).
Post(u, contentType, body) ==
    /\ pc = "idle"
    /\ IF UrlParses(u)
       THEN httpStart("Post", u, "POST", UrlParse(u), "", contentType, body)
       ELSE Fail("Post", u, Err("URLParseError", NoHandler))

\* Reload as it would be if it sent a request without the headers.
reloadedBare(s) == [s.req EXCEPT !.hdr = 0]

\* The request Reload hands to httpRequest: bow.state.Request.
reloaded(s) == s.req

\* Reload as it would be if it did not look at the current state's request.
pageLoadedAlways(s) == TRUE

\* The condition of Reload: bow.state.Request != nil.
pageLoaded(s) == s.req # NilRequest

\* Reload: httpRequest(bow.state.Request) when the current state has a request.
Reload ==
    /\ pc = "idle"
    /\ IF pageLoaded(state)
       THEN /\ nnav < MaxNav
            /\ nnav' = nnav + 1
            /\ frame' = [NoFrame EXCEPT !.req = reloaded(state)]
            /\ pc' = "pre"
            /\ call' = Begin("Reload", "")
            /\ prev' = Summary(call)
            /\ UNCHANGED <<state, history, headers, hdrHeap, userAgent, auth, form,
                           attributes, refresh, bookmarks, marked, backed, recorder, rlog, who, other, ret, ncommit, pred, session,
                           events, dispatcher, dlog>>
       ELSE Fail("Reload", "", Err("PageNotLoaded", NoHandler))

\* What is remembered of the last Back that returned true, once the
\* navigation that created a State has returned err: the first after the
\* Back counts as the navigation that followed it when it succeeded.
AfterCommit(err) ==
    IF backed.stage = "backed"
    THEN (IF err = NoErr THEN [backed EXCEPT !.stage = "navigated"] ELSE NoBack)
    ELSE IF backed.stage = "navigated" THEN [backed EXCEPT !.stage = "later"]
    ELSE backed

\* The same once a Back has returned false: it was the first Back after
\* the navigation, if one followed.
AfterBackFalse ==
    IF backed.stage = "navigated" THEN [backed EXCEPT !.stage = "later"] ELSE backed

\* Back as it would be if it popped whenever the history is not empty.
BackAllowedNonEmpty(h) == HistoryLen(h) > 0

\* The condition of Back: bow.history.Len() > 1.
BackAllowed(h) == HistoryLen(h) > 1

\* Back: pop the history when it holds more than one State.
Back ==
    /\ pc = "idle"
    /\ IF BackAllowed(history)
       THEN /\ state' = HistoryPop(history).state
            /\ history' = HistoryPop(history).rest
            /\ call' = Return(Begin("Back", ""), Err("true", NoHandler))
            /\ backed' = [stage |-> "backed", left |-> state,
                          restored |-> HistoryPop(history).state]
       ELSE /\ call' = Return(Begin("Back", ""), Err("false", NoHandler))
            /\ backed' = AfterBackFalse
            /\ UNCHANGED <<state, history>>
    /\ prev' = Summary(call)
    /\ session' = AfterBack
    /\ UNCHANGED <<headers, hdrHeap, nnav, userAgent, auth, form, attributes, refresh,
                   bookmarks, marked, recorder, rlog, who, other, ret, pc, frame, ncommit, pred, events, dispatcher, dlog>>


(***************************************************************************)
(* httpRequest, step by step.                                              *)
(***************************************************************************)
\* httpRequest as it would be if the State were committed before the
\* response is parsed.
afterPushEarly(step) ==
    CASE step = "pre" -> "fetch"
      [] step = "fetch" -> "push"
      [] step = "push" -> "parse"
      [] step = "parse" -> "post"
      [] step = "post" -> "idle"

\* httpRequest as it would be if doPostRequest ran before the State is
\* committed.
afterPostEarly(step) ==
    CASE step = "pre" -> "fetch"
      [] step = "fetch" -> "parse"
      [] step = "parse" -> "post"
      [] step = "post" -> "push"
      [] step = "push" -> "idle"

\* The order of the statements of httpRequest: the step that follows a step
\* that did not return ("idle" for the return that ends the function).
after(step) ==
    CASE step = "pre" -> "fetch"
      [] step = "fetch" -> "parse"
      [] step = "parse" -> "push"
      [] step = "push" -> "post"
      [] step = "post" -> "idle"

\* A return from httpRequest with err.
httpReturn(c, err) ==
    /\ call' = Return(c, err)
    /\ pc' = "idle"
    /\ frame' = NoFrame
    /\ prev' = prev

\* httpRequest goes on after a step, to the next statement or to its end.
httpContinue(step, c, f) ==
    IF after(step) = "idle"
    THEN httpReturn(c, NoErr)
    ELSE /\ call' = c
         /\ pc' = after(step)
         /\ frame' = f
         /\ prev' = prev

\* doPreRequest as it would be if its error were dropped.
preRequestErrorIgnored(hm) == NoErr

\* The error doPreRequest returns: that of the PreRequestEvent dispatch.
preRequestError(hm) == EventDispatcherDo(hm, PreRequestEvent).err

\* doPreRequest; on an error httpRequest returns it, otherwise the refresh
\* timer, if there is one, is stopped.
httpRequest_pre ==
    /\ pc = "pre"
    /\ LET r == EventDispatcherDo(events, PreRequestEvent)
           c == [Step(call, "pre") EXCEPT
                    !.calls = @ \o Invocations(PreRequestEvent, r.invoked, state.id,
                                             Snapshot(frame.req))]
       IN IF preRequestError(events) # NoErr
          THEN /\ httpReturn(c, preRequestError(events))
               /\ session' = AfterNavigation(preRequestError(events))
               /\ UNCHANGED refresh
          ELSE /\ httpContinue("pre", c, frame)
               /\ refresh' = IF refresh = "running" THEN "stopped" ELSE refresh
               /\ UNCHANGED session
    /\ UNCHANGED <<state, history, headers, hdrHeap, nnav, userAgent, auth, form,
                   attributes, bookmarks, marked, backed, recorder, rlog, who, other, ret, ncommit, pred, events, dispatcher, dlog>>

\* shouldRedirect as it would be if it did not consult the attribute.
shouldRedirectAlways(attrs) == TRUE

\* shouldRedirect: redirects are followed when FollowRedirects is set.
shouldRedirect(attrs) == attrs[FollowRedirects]

\* buildClient().Do(req): the request is sent as it is now and its body is
\* consumed.  The exchange fails, or the server answers or redirects; a
\* redirect is followed (a second exchange, for the Location) when
\* shouldRedirect allows it and is an error otherwise.
httpRequest_fetch ==
    /\ pc = "fetch"
    /\ LET r == frame.req
           c == [Step(call, "fetch") EXCEPT !.sent = Append(@, Snapshot(r))]
           follow == [c EXCEPT !.answer = "redirect", !.followed = Append(@, Location(r.url))]
           sent == [frame EXCEPT !.req.body = <<>>]
       IN \/ /\ httpReturn([c EXCEPT !.answer = "error"], Err("TransportError", NoHandler))
             /\ session' = AfterNavigation(Err("TransportError", NoHandler))
          \/ /\ Location(r.url) = ""
             /\ httpContinue("fetch", [c EXCEPT !.answer = "ok"],
                             [sent EXCEPT !.resp = Response(r.url)])
             /\ UNCHANGED session
          \/ /\ Location(r.url) # ""
             /\ ~shouldRedirect(attributes)
             /\ httpReturn([c EXCEPT !.answer = "redirect"], Err("LocationError", NoHandler))
             /\ session' = AfterNavigation(Err("LocationError", NoHandler))
          \/ /\ Location(r.url) # ""
             /\ shouldRedirect(attributes)
             /\ \/ /\ httpReturn(follow, Err("TransportError", NoHandler))
                   /\ session' = AfterNavigation(Err("TransportError", NoHandler))
                \/ /\ httpContinue("fetch", follow,
                                   [sent EXCEPT !.resp = Response(Location(r.url))])
                   /\ UNCHANGED session
    /\ UNCHANGED <<state, history, headers, hdrHeap, nnav, userAgent, auth, form, attributes,
                   refresh, bookmarks, marked, backed, recorder, rlog, who, other, ret, ncommit, pred, events, dispatcher, dlog>>

\* goquery.NewDocumentFromResponse(resp): the document, or an error.
httpRequest_parse ==
    /\ pc = "parse"
    /\ \/ /\ httpReturn(Step(call, "parse"), Err("ParseError", NoHandler))
          /\ session' = AfterNavigation(Err("ParseError", NoHandler))
       \/ /\ httpContinue("parse", Step(call, "parse"),
                          [frame EXCEPT !.dom = Document(frame.resp.url)])
          /\ UNCHANGED session
    /\ UNCHANGED <<state, history, headers, hdrHeap, nnav, userAgent, auth, form,
                   attributes, refresh, bookmarks, marked, backed, recorder, rlog, who, other, ret, ncommit, pred, events,
                   dispatcher, dlog>>

\* handleMetaRefresh: with MetaRefreshHandling set and a meta refresh tag
\* whose content parses as a duration, a new timer replaces bow.refresh.
handleMetaRefresh(attrs, dom, timer) ==
    IF attrs[MetaRefreshHandling] /\ dom.refresh # "" THEN "running" ELSE timer

\* The push as it would be if the new State were pushed instead of the
\* State that was current.
pushedNew(old, new) == new

\* What httpRequest pushes on the history: bow.state, the State that is
\* current before the new one replaces it.
pushed(old, new) == old

\* bow.history.Push(bow.state); bow.state = jar.NewHistoryState(req, resp,
\* dom); bow.handleMetaRefresh().
httpRequest_push ==
    /\ pc = "push"
    /\ LET new == NewHistoryState(ncommit + 1, frame.req, frame.resp, frame.dom)
       IN /\ history' = HistoryPush(history, pushed(state, new))
          /\ state' = new
          /\ refresh' = handleMetaRefresh(attributes, frame.dom, refresh)
          /\ pred' = Append(pred, state.id)
          /\ session' = AfterPush(new)
    /\ ncommit' = ncommit + 1
    /\ httpContinue("push", Step(call, "push"), frame)
    /\ UNCHANGED <<headers, hdrHeap, nnav, userAgent, auth, form, attributes, bookmarks, marked, backed, recorder, rlog, who, other, ret,
                   events, dispatcher, dlog>>

\* doPostRequest as it would be if its Event carried no response.
doPostRequestNoArgs(resp) == [Type |-> PostRequestEvent, Args |-> NoResp]

\* The Event doPostRequest(resp) builds.
doPostRequest(resp) == [Type |-> PostRequestEvent, Args |-> resp]

\* doPostRequest(resp); its error, if any, is what httpRequest returns.
httpRequest_post ==
    /\ pc = "post"
    /\ LET ev == doPostRequest(frame.resp)
           r == EventDispatcherDo(events, ev.Type)
           c == [Step(call, "post") EXCEPT
                    !.calls = @ \o Invocations(ev.Type, r.invoked, state.id, ev.Args)]
       IN /\ IF r.err # NoErr
             THEN /\ httpReturn(c, r.err)
                  /\ session' = AfterNavigation(r.err)
             ELSE /\ httpContinue("post", c, frame)
                  /\ UNCHANGED session
          /\ backed' = AfterCommit(r.err)
    /\ UNCHANGED <<state, history, headers, hdrHeap, nnav, userAgent, auth, form,
                   attributes, refresh, bookmarks, marked, recorder, rlog, who, other, ret, ncommit, pred, events,
                   dispatcher, dlog>>

(***************************************************************************)
(* The goroutine handleMetaRefresh starts: <-bow.refresh.C; bow.Reload().  *)
(* It takes no lock and the caller takes none, so its httpRequest and one  *)
(* of the caller are scheduled freely against each other.                  *)
(***************************************************************************)
\* The timer fires and the goroutine enters Reload, which reads
\* bow.state.Request and enters httpRequest, whatever the caller is doing.
TimerFire ==
    /\ who = "caller"
    /\ other.pc = "idle"
    /\ refresh = "running"
    /\ pageLoaded(state)
    /\ ncommit < MaxNav
    /\ refresh' = "fired"
    /\ other' = [pc |-> "pre", frame |-> [NoFrame EXCEPT !.req = reloaded(state)],
                 call |-> Begin("Reload", "")]
    /\ UNCHANGED <<state, history, headers, hdrHeap, nnav, userAgent, auth, form,
                   attributes, bookmarks, marked, backed, recorder, rlog, events, dispatcher, pc, frame,
                   ncommit, call, prev, pred, session, dlog, who, ret>>

\* The scheduler goes from the caller to the goroutine or back: the next
\* steps of httpRequest are those of the other of the two.
Switch ==
    /\ other.pc # "idle" \/ who = "timer"
    /\ who' = IF who = "caller" THEN "timer" ELSE "caller"
    /\ pc' = other.pc
    /\ frame' = other.frame
    /\ call' = other.call
    /\ other' = IF who = "timer" /\ pc = "idle" THEN NoOther
                ELSE [pc |-> pc, frame |-> frame, call |-> call]
    /\ UNCHANGED <<state, history, headers, hdrHeap, nnav, userAgent, auth, form,
                   attributes, refresh, bookmarks, marked, backed, recorder, rlog, events, dispatcher,
                   ncommit, prev, pred, session, dlog, ret>>

(***************************************************************************)
(* jar.MemoryRecorder.  A request is identified by a name; the event a     *)
(* recorder receives carries the response, whose Request it records.       *)
(***************************************************************************)
RecRequests == {"req1", "req2"}

\* What the methods of a recorder leave alone: the browser.
browser == <<state, history, headers, hdrHeap, nnav, userAgent, auth, form,
             attributes, refresh, bookmarks, marked, backed, who, other, ret, pc, frame,
             ncommit, pred, events, call, prev, session, dlog>>

\* HandleEvent as it would be if it did not look at the recording flag.
HandleEventAlways(r, e, req) ==
    IF e = PostRequest THEN [r EXCEPT !.requests = Append(@, req)] ELSE r

\* MemoryRecorder.HandleEvent(e, _, args) with args a response to req.
HandleEvent(r, e, req) ==
    IF r.recording /\ e = PostRequest THEN [r EXCEPT !.requests = Append(@, req)] ELSE r

\* The loop of MemoryRecorder.Replay over reqs: r.Do(event.RecordReplay, r,
\* request) for each request, until a dispatch returns an error.
RECURSIVE ReplayFrom(_, _, _)
ReplayFrom(reqs, hm, acc) ==
    IF reqs = <<>> THEN [dispatched |-> acc, err |-> NoErr]
    ELSE LET d == DispatcherDo(hm, RecordReplay)
         IN IF d.err # NoErr THEN [dispatched |-> Append(acc, Head(reqs)), err |-> d.err]
            ELSE ReplayFrom(Tail(reqs), hm, Append(acc, Head(reqs)))

Logged(op, e, req) == NoReplay(Append(rlog.log, [op |-> op, kind |-> e, req |-> req]))

\* MemoryRecorder.Start: a new requests slice, recording on; the result of
\* the dispatch to the recorder's own handlers is dropped.
RecorderStart ==
    /\ Len(rlog.log) < MaxEvents
    /\ recorder' = [requests |-> <<>>, recording |-> TRUE]
    /\ rlog' = Logged("Start", -1, "")
    /\ UNCHANGED <<browser, dispatcher>>

\* MemoryRecorder.Stop: recording off; the result of the dispatch is dropped.
RecorderStop ==
    /\ Len(rlog.log) < MaxEvents
    /\ recorder' = [recorder EXCEPT !.recording = FALSE]
    /\ rlog' = Logged("Stop", -1, "")
    /\ UNCHANGED <<browser, dispatcher>>

\* The recorder is handed an event.
RecorderHandleEvent(e, req) ==
    /\ Len(rlog.log) < MaxEvents
    /\ recorder' = HandleEvent(recorder, e, req)
    /\ rlog' = Logged("HandleEvent", e, req)
    /\ UNCHANGED <<browser, dispatcher>>

\* MemoryRecorder.Replay.
RecorderReplay ==
    /\ LET r == ReplayFrom(recorder.requests, dispatcher, <<>>)
       IN rlog' = [rlog EXCEPT !.dispatched = r.dispatched, !.err = r.err, !.done = TRUE]
    /\ UNCHANGED <<browser, dispatcher, recorder>>

(***************************************************************************)
(* Configuration and the dispatchers.                                      *)
(***************************************************************************)
\* Browser.On(e, h): bow.events.On(e, h).
On(e, fails) ==
    /\ pc = "idle"
    /\ CountHandlers(events, EventTypes) + CountHandlers(dispatcher, EventKinds) < MaxHandlers
    /\ events' = AppendHandler(events, e, fails)
    /\ call' = Configured
    /\ prev' = NoSummary
    /\ UNCHANGED <<browserVars, dispatcher, session, dlog>>

\* Browser.SetEventDispatcher(ed): bow.events = ed.
SetEventDispatcher(ed) ==
    /\ pc = "idle"
    /\ events # ed
    /\ events' = ed
    /\ call' = Configured
    /\ prev' = NoSummary
    /\ UNCHANGED <<browserVars, dispatcher, session, dlog>>

\* Browser.SetAttribute(a, v).
SetAttribute(a, v) ==
    /\ pc = "idle"
    /\ attributes[a] # v
    /\ attributes' = [attributes EXCEPT ![a] = v]
    /\ call' = Configured
    /\ prev' = NoSummary
    /\ UNCHANGED <<state, history, headers, hdrHeap, nnav, userAgent, auth, form,
                   refresh, bookmarks, marked, backed, recorder, rlog, who, other, ret, pc, frame, ncommit, pred, session,
                   events, dispatcher, dlog>>

\* The bookmarks jar's Save(name, u), called on the jar by the caller.
BookmarksSave(name, u) ==
    /\ pc = "idle"
    /\ bookmarks[name] # u
    /\ bookmarks' = [bookmarks EXCEPT ![name] = u]
    /\ call' = Configured
    /\ prev' = NoSummary
    /\ marked' = [marked EXCEPT ![name] = ""]
    /\ UNCHANGED <<state, history, headers, hdrHeap, nnav, userAgent, auth, form,
                   attributes, refresh, pc, frame, ncommit, pred, session, backed,
                   events, dispatcher, dlog, who, other, ret, recorder, rlog>>

\* Bookmark as it would be if it saved the address of the site only.
bookmarkedOrigin(s) == Origin(UrlString(ResolveUrl(s, Url(s))))

\* The URL Bookmark saves: bow.ResolveUrl(bow.Url()).String().
bookmarked(s) == UrlString(ResolveUrl(s, Url(s)))

\* Browser.Bookmark(name): bookmarks.Save(name, url); the store's error, if
\* it returns one, is the result.
Bookmark(name) ==
    /\ pc = "idle"
    /\ pageLoaded(state)
    /\ \E saved \in BOOLEAN :
          /\ bookmarks' = IF saved THEN [bookmarks EXCEPT ![name] = bookmarked(state)]
                          ELSE bookmarks
          /\ marked' = IF saved THEN [marked EXCEPT ![name] = UrlString(Url(state))]
                       ELSE marked
          /\ call' = Return(Begin("Bookmark", name),
                            IF saved THEN NoErr ELSE Err("StoreError", NoHandler))
    /\ prev' = Summary(call)
    /\ session' = OtherSession
    /\ UNCHANGED <<state, history, headers, hdrHeap, nnav, userAgent, auth, form,
                   attributes, refresh, pc, frame, ncommit, pred, backed,
                   events, dispatcher, dlog, who, other, ret, recorder, rlog>>

\* Browser.Do(e), called directly: e.Browser = bow; bow.events.Do(e).
BrowserDo(e) ==
    /\ pc = "idle"
    /\ LET r == EventDispatcherDo(events, e)
       IN dlog' = [on |-> "browser", kind |-> e, bound |-> events, invoked |-> r.invoked,
                   err |-> r.err]
    /\ UNCHANGED <<browserVars, events, dispatcher, call, prev, session>>

\* event.Dispatcher.On(event, handler): appends a function that calls
\* handler.HandleEvent and returns its result.
DispatcherOn(e, fails) ==
    /\ CountHandlers(events, EventTypes) + CountHandlers(dispatcher, EventKinds) < MaxHandlers
    /\ dispatcher' = AppendHandler(dispatcher, e, fails)
    /\ UNCHANGED <<browserVars, events, call, prev, session, dlog>>

\* event.Dispatcher.OnFunc(event, handler): appends the function.
DispatcherOnFunc(e, fails) ==
    /\ CountHandlers(events, EventTypes) + CountHandlers(dispatcher, EventKinds) < MaxHandlers
    /\ dispatcher' = AppendHandler(dispatcher, e, fails)
    /\ UNCHANGED <<browserVars, events, call, prev, session, dlog>>

\* event.Dispatcher.Do(event, sender, args).
DispatcherDoEvent(e) ==
    /\ LET r == DispatcherDo(dispatcher, e)
       IN dlog' = [on |-> "event", kind |-> e, bound |-> dispatcher, invoked |-> r.invoked,
                   err |-> r.err]
    /\ UNCHANGED <<browserVars, events, dispatcher, call, prev, session>>

\* Browser.SetUserAgent(ua).
SetUserAgent(ua) ==
    /\ pc = "idle"
    /\ userAgent # ua
    /\ userAgent' = ua
    /\ call' = Configured
    /\ prev' = NoSummary
    /\ UNCHANGED <<state, history, headers, hdrHeap, nnav, auth, form, attributes,
                   refresh, bookmarks, marked, backed, recorder, rlog, who, other, ret, pc, frame, ncommit, pred, session,
                   events, dispatcher, dlog>>

\* Browser.SetAuthorization(username, password).
SetAuthorization(username, password) ==
    /\ pc = "idle"
    /\ auth # [Username |-> username, Password |-> password]
    /\ auth' = [Username |-> username, Password |-> password]
    /\ call' = Configured
    /\ prev' = NoSummary
    /\ UNCHANGED <<state, history, headers, hdrHeap, nnav, userAgent, form, attributes,
                   refresh, bookmarks, marked, backed, recorder, rlog, who, other, ret, pc, frame, ncommit, pred, session,
                   events, dispatcher, dlog>>

\* Browser.AddRequestHeader(name, value): bow.headers.Add(name, value).
AddRequestHeader(name, value) ==
    /\ pc = "idle"
    /\ hdrHeap[headers][name] = <<>>
    /\ hdrHeap' = [hdrHeap EXCEPT ![headers] = HeaderAdd(@, name, value)]
    /\ call' = Configured
    /\ prev' = NoSummary
    /\ UNCHANGED <<state, history, headers, nnav, userAgent, auth, form, attributes,
                   refresh, bookmarks, marked, backed, recorder, rlog, who, other, ret, pc, frame, ncommit, pred, session,
                   events, dispatcher, dlog>>

(***************************************************************************)
(* Browser.Click.                                                          *)
(***************************************************************************)
\* Click(expr) on a loaded page: the selection must not be empty and must
\* hold an anchor, the href of its first element must exist and parse; then
\* doClick(href), whose error is dropped, and httpGET(href, bow.Url()).
BrowserClick(expr) ==
    /\ pc = "idle"
    /\ pageLoaded(state)
    /\ LET sel == Find(state.dom, expr)
       IN IF Len(sel) = 0
          THEN Fail("Click", expr, Err("ElementNotFound", NoHandler))
          ELSE IF ~Is(sel, "a")
          THEN Fail("Click", expr, Err("ElementNotFound", NoHandler))
          ELSE IF ~HasHref(sel)
          THEN Fail("Click", expr, Err("AttributeNotFound", NoHandler))
          ELSE IF ~UrlParses(sel[1].href)
          THEN Fail("Click", expr, Err("URLParseError", NoHandler))
          ELSE LET href == attrToResolvedUrl(state, sel)
                   r == EventDispatcherDo(events, ClickEvent)
                   c == [Step(Begin("Click", expr), "click") EXCEPT
                            !.calls = Invocations(ClickEvent, r.invoked, state.id, href)]
               IN httpStartFrom(c, "GET", href, UrlString(Url(state)), "", <<>>)

(***************************************************************************)
(* Forms: Browser.Form, Form.Input, Form.Submit, Form.Click.               *)
(***************************************************************************)
\* Browser.Form(expr), expr matching the i-th form of the current page.
BrowserForm(i) ==
    /\ pc = "idle"
    /\ pageLoaded(state)
    /\ i \in 1..Len(state.dom.forms)
    /\ form' = NewForm(state, state.dom.forms[i])
    /\ call' = Configured
    /\ prev' = NoSummary
    /\ UNCHANGED <<state, history, headers, hdrHeap, nnav, userAgent, auth,
                   attributes, refresh, bookmarks, marked, backed, recorder, rlog, who, other, ret, pc, frame, ncommit, pred,
                   session, events, dispatcher, dlog>>

\* A call that returns what it computes of the current page and changes
\* nothing: Browser.Forms, Browser.Links, Browser.Images.
Query(op, result) ==
    /\ pc = "idle"
    /\ pageLoaded(state)
    /\ ret' = result
    /\ call' = Return(Begin(op, ""), NoErr)
    /\ prev' = Summary(call)
    /\ UNCHANGED <<state, history, headers, hdrHeap, nnav, userAgent, auth, form,
                   attributes, refresh, bookmarks, marked, backed, recorder, rlog, who, other, pc, frame,
                   ncommit, pred, session, events, dispatcher, dlog>>

BrowserForms == Query("Forms", Forms(state))
BrowserLinks == Query("Links", Links(state))
BrowserImages == Query("Images", Images(state))

\* Form.Input(name, value).
FormInput(name, value) ==
    /\ pc = "idle"
    /\ form # NoForm
    /\ IF stringInSlice(name, form.definedFields)
       THEN form' = [form EXCEPT !.fields = ValuesSet(@, name, value),
                                 !.input = [name |-> name, value |-> value, err |-> "nil"]]
       ELSE form' = [form EXCEPT
                        !.input = [name |-> name, value |-> value, err |-> "ElementNotFound"]]
    /\ call' = Return(Begin("Input", name),
                      IF stringInSlice(name, form.definedFields) THEN NoErr
                      ELSE Err("ElementNotFound", NoHandler))
    /\ prev' = NoSummary
    /\ UNCHANGED <<state, history, headers, hdrHeap, nnav, userAgent, auth,
                   attributes, refresh, bookmarks, marked, backed, recorder, rlog, who, other, ret, pc, frame, ncommit, pred,
                   session, events, dispatcher, dlog>>

\* send as it would be if it left the button out of the values.
sendValuesNoButton(f, buttonName, buttonValue) == f.fields

\* The values send submits: the fields, and the button when it has a name.
sendValues(f, buttonName, buttonValue) ==
    IF buttonName # "" THEN ValuesSet(f.fields, buttonName, buttonValue) ELSE f.fields

\* Form.send(buttonName, buttonValue): OpenForm (the values become the query
\* of the action) or PostForm (the values become the body).
send(op, buttonName, buttonValue) ==
    IF ~formActionParses(form.selection)
    THEN Fail(op, buttonName, Err("URLParseError", NoHandler))
    ELSE LET aurl == ResolveUrl(state, formAction(state, form.selection))
             values == sendValues(form, buttonName, buttonValue)
         IN IF ToUpper(formMethod(form.selection)) = "GET"
            THEN httpStart(op, buttonName, "GET", [aurl EXCEPT !.query = Encode(values)],
                           "", "", <<>>)
            ELSE httpStart(op, buttonName, "POST", aurl, "",
                           "application/x-www-form-urlencoded", Encode(values))

\* Form.Click(button), called by op (Click itself, or Submit).
formClick(op, button) ==
    IF form.buttons[button] = <<>>
    THEN Fail(op, button, Err("InvalidFormValue", NoHandler))
    ELSE send(op, button, form.buttons[button][1])

FormClick(button) ==
    /\ pc = "idle"
    /\ form # NoForm
    /\ formClick("FormClick", button)

\* Form.Submit: Click on the button the range over f.buttons yields first
\* (any of them), or send without a button.
FormSubmit ==
    /\ pc = "idle"
    /\ form # NoForm
    /\ IF ValuesLen(form.buttons) > 0
       THEN \E name \in Names : form.buttons[name] # <<>> /\ formClick("Submit", name)
       ELSE send("Submit", "", "")

(***************************************************************************)
(* The specifications.                                                     *)
(***************************************************************************)
\* A session driven by one caller, up to the time its refresh timer, if
\* one is running, would fire.
Next ==
    \/ \E u \in OpenInputs : Open(u)
    \/ \E n \in BookmarkNames : OpenBookmark(n)
    \/ \E u \in PostInputs, b \in PostBodies :
           Post(u, "application/x-www-form-urlencoded", b)
    \/ Reload
    \/ Back
    \/ httpRequest_pre
    \/ httpRequest_fetch
    \/ httpRequest_parse
    \/ httpRequest_push
    \/ httpRequest_post
    \/ \E e \in {PreRequestEvent, PostRequestEvent}, f \in BOOLEAN : On(e, f)
    \/ \E v \in BOOLEAN : SetAttribute(FollowRedirects, v)
    \/ \E n \in BookmarkNames, u \in {Page1} : BookmarksSave(n, u)

Spec == Init /\ [][Next]_vars

\* The two dispatchers on their own: handlers are bound and events of every
\* kind are dispatched.
NextDispatch ==
    \/ \E e \in EventTypes, f \in BOOLEAN : On(e, f)
    \/ \E e \in EventTypes : BrowserDo(e)
    \/ \E e \in EventKinds, f \in BOOLEAN : DispatcherOn(e, f)
    \/ \E e \in EventKinds, f \in BOOLEAN : DispatcherOnFunc(e, f)
    \/ \E e \in EventKinds : DispatcherDoEvent(e)

SpecDispatch == Init /\ [][NextDispatch]_vars

\* A session in which the caller opens the page with the forms, takes a form
\* of the current page, edits and submits it.
NextForm ==
    \/ Open(FormPage)
    \/ \E i \in 1..3 : BrowserForm(i)
    \/ \E n \in {"q", "user", "nope"}, v \in InputValues : FormInput(n, v)
    \/ FormSubmit
    \/ \E b \in {"go", "user", "", "nope"} : FormClick(b)
    \/ httpRequest_pre
    \/ httpRequest_fetch
    \/ httpRequest_parse
    \/ httpRequest_push
    \/ httpRequest_post
    \/ On(FormSubmitEvent, FALSE)

SpecForm == Init /\ [][NextForm]_vars

\* A session in which the caller opens pages, clicks on what selectors match
\* and goes back.
NextClick ==
    \/ \E u \in {Page1, FormPage} : Open(u)
    \/ \E expr \in Exprs : BrowserClick(expr)
    \/ Back
    \/ httpRequest_pre
    \/ httpRequest_fetch
    \/ httpRequest_parse
    \/ httpRequest_push
    \/ httpRequest_post
    \/ \E e \in {ClickEvent, PreRequestEvent}, f \in BOOLEAN : On(e, f)

SpecClick == Init /\ [][NextClick]_vars

\* A session in which the caller configures what requests carry (user agent,
\* credentials, a header of its own, the send-referer attribute) between
\* navigations with and without a referer and a body.
NextHeaders ==
    \/ SetUserAgent("Testing/1.0")
    \/ \E a \in {<<"joe", "bob">>, <<"", "">>} : SetAuthorization(a[1], a[2])
    \/ AddRequestHeader("X-Testing-1", "Testing-1")
    \/ \E v \in BOOLEAN : SetAttribute(SendReferer, v)
    \/ Open(Page1)
    \/ \E b \in PostBodies : Post(Page1, "application/x-www-form-urlencoded", b)
    \/ BrowserClick("a")
    \/ httpRequest_pre
    \/ httpRequest_fetch
    \/ httpRequest_parse
    \/ httpRequest_push
    \/ httpRequest_post

SpecHeaders == Init /\ [][NextHeaders]_vars

\* A session in which the caller bookmarks the current page, navigates on,
\* and opens the bookmark.
NextBookmark ==
    \/ \E u \in {Page1, Moved} : Open(u)
    \/ BrowserClick("a")
    \/ Back
    \/ \E n \in BookmarkNames : Bookmark(n)
    \/ \E n \in BookmarkNames : OpenBookmark(n)
    \/ httpRequest_pre
    \/ httpRequest_fetch
    \/ httpRequest_parse
    \/ httpRequest_push
    \/ httpRequest_post

SpecBookmark == Init /\ [][NextBookmark]_vars

\* A session on pages with and without a meta refresh tag: the caller
\* makes its calls one after the other, and the goroutine of the refresh
\* timer runs when the timer fires.
NextRefresh ==
    \/ who = "caller" /\ \E u \in {Page1, Page2} : Open(u)
    \/ who = "caller" /\ Back
    \/ who = "caller" /\ \E v \in BOOLEAN : SetAttribute(MetaRefreshHandling, v)
    \/ TimerFire
    \/ Switch
    \/ httpRequest_pre
    \/ httpRequest_fetch
    \/ httpRequest_parse
    \/ httpRequest_push
    \/ httpRequest_post

SpecRefresh == Init /\ [][NextRefresh]_vars

\* A session on the same pages in which the caller binds pre-request
\* handlers and navigates while the refresh timer is pending; the timer
\* fires when it was not stopped.
NextCancel ==
    \/ \E u \in {Page1, Page2} : Open(u)
    \/ Reload
    \/ \E f \in BOOLEAN : On(PreRequestEvent, f)
    \/ TimerFire
    \/ httpRequest_pre
    \/ httpRequest_fetch
    \/ httpRequest_parse
    \/ httpRequest_push
    \/ httpRequest_post

SpecCancel == Init /\ [][NextCancel]_vars

\* A session in which the caller binds handlers, gives the browser a new
\* dispatcher (NewEventDispatcher()), and navigates.
NextHandlers ==
    \/ \E e \in {PreRequestEvent, PostRequestEvent}, f \in BOOLEAN : On(e, f)
    \/ SetEventDispatcher(NoHandlers(EventTypes))
    \/ BrowserDo(PostRequestEvent)
    \/ Open(Page1)
    \/ httpRequest_pre
    \/ httpRequest_fetch
    \/ httpRequest_parse
    \/ httpRequest_push
    \/ httpRequest_post

SpecHandlers == Init /\ [][NextHandlers]_vars

\* A session in which the caller opens pages and asks for their forms,
\* links and images.
NextAssets ==
    \/ \E u \in {Page1, Page2, FormPage, Outside} : Open(u)
    \/ Back
    \/ BrowserForms
    \/ BrowserLinks
    \/ BrowserImages
    \/ httpRequest_pre
    \/ httpRequest_fetch
    \/ httpRequest_parse
    \/ httpRequest_push
    \/ httpRequest_post

SpecAssets == Init /\ [][NextAssets]_vars

\* A recorder on its own: it is started and stopped, receives events of
\* the browser, and replays; handlers are bound to its replay event.
NextRecorder ==
    \/ RecorderStart
    \/ RecorderStop
    \/ \E e \in {PreRequest, PostRequest}, req \in RecRequests : RecorderHandleEvent(e, req)
    \/ RecorderReplay
    \/ \E f \in BOOLEAN : DispatcherOnFunc(RecordReplay, f)

SpecRecorder == Init /\ [][NextRecorder]_vars

\* Navigations, Backs and navigations after them: pages are opened and
\* reloaded, Back is called, a page is bookmarked and post-request handlers
\* that succeed or fail are bound.
NextBack ==
    \/ \E u \in {Page1, Page2} : Open(u)
    \/ Reload
    \/ Back
    \/ \E n \in BookmarkNames : Bookmark(n)
    \/ \E f \in BOOLEAN : On(PostRequestEvent, f)
    \/ httpRequest_pre
    \/ httpRequest_fetch
    \/ httpRequest_parse
    \/ httpRequest_push
    \/ httpRequest_post

SpecBack == Init /\ [][NextBack]_vars

\* A Form and the navigations around it: pages with and without forms and
\* on two hosts are opened, a page is bookmarked, a Form is built from the
\* current page and the Form the caller holds is submitted.
NextSubmit ==
    \/ \E u \in {FormPage, Page1, Outside} : Open(u)
    \/ \E n \in BookmarkNames : Bookmark(n)
    \/ \E i \in 1..3 : BrowserForm(i)
    \/ FormSubmit
    \/ httpRequest_pre
    \/ httpRequest_fetch
    \/ httpRequest_parse
    \/ httpRequest_push
    \/ httpRequest_post

SpecSubmit == Init /\ [][NextSubmit]_vars


(***************************************************************************)
(* The accessors the properties read.                                      *)
(***************************************************************************)
\* Browser.Title and Browser.Body read of a State: the text of the
\* document's title and the html of its body.
Title(s) == s.dom.title
Body(s) == s.dom.body

Min(S) == CHOOSE x \in S : \A y \in S : x <= y

\* A call that made a request has returned.
Returned(c) == c.done /\ c.op \in Navigations
\* The error is one returned by a handler bound to kind e.
HandlerErrorOf(err, e) == err.kind = "HandlerError" /\ err.by.e = e

(***************************************************************************)
(* C1.  After N >= 1 consecutive successful navigations on a fresh         *)
(* session, the k-th Back for k < N returns true and makes current the     *)
(* State that navigation N-k produced (same title, same body); the N-th    *)
(* Back returns false and leaves the current State and the history as they *)
(* were.                                                                   *)
(***************************************************************************)
C1_BackRestoresEachPriorPage ==
    (call.op = "Back" /\ session.mode = "backs") =>
        LET N == Len(session.made)
            k == session.backs
        IN IF k < N
           THEN /\ call.result.kind = "true"
                /\ state = session.made[N - k]
                /\ Title(state) = Title(session.made[N - k])
                /\ Body(state) = Body(session.made[N - k])
                /\ HistoryLen(history) = HistoryLen(call.h0) - 1
           ELSE /\ call.result.kind = "false"
                /\ state = call.s0
                /\ history = call.h0

\* Two navigations, then a Back that returned true and a Back that returned false.
C1_Witness ==
    /\ call.op = "Back"
    /\ session.mode = "backs"
    /\ Len(session.made) = 2
    /\ session.backs = 2
    /\ call.result.kind = "false"
    /\ state = session.made[1]

(***************************************************************************)
(* C2.  As claimed: whenever the history is not empty, its top element is  *)
(* the current State.                                                      *)
(***************************************************************************)
C2_TopIsCurrent ==
    (pc = "idle" /\ HistoryLen(history) > 0) => HistoryTop(history) = state

(***************************************************************************)
(* C2, amended.  Whenever the history is not empty, its top element is the *)
(* State that was current when the current State was created, and the      *)
(* current State is no element of the history.                             *)
(***************************************************************************)
C2_TopIsPredecessor ==
    HistoryLen(history) > 0 =>
        /\ state.id >= 1
        /\ HistoryTop(history).id = pred[state.id]
        /\ \A i \in 1..Len(history) : history[i] # state

\* After a Back that returned true, with a history that is still not empty.
C2_Witness ==
    /\ call.op = "Back"
    /\ call.result.kind = "true"
    /\ HistoryLen(history) > 0
    /\ state.id = 1

(***************************************************************************)
(* C3.  A navigation that succeeds took the steps pre-request dispatch,    *)
(* transport fetch, document parse, history push with the update of the    *)
(* current State, post-request dispatch, each once and in this order; the  *)
(* pre-request handlers saw the old State as current and every             *)
(* post-request handler saw the new one.                                   *)
(***************************************************************************)
C3_PipelineOrder ==
    /\ (Returned(call) /\ call.result = NoErr) =>
          /\ call.trace = <<"pre", "fetch", "parse", "push", "post">>
          /\ Len(call.sent) = 1
          /\ history = HistoryPush(call.h0, call.s0)
          /\ state.id = ncommit
          /\ state # call.s0
    /\ \A i \in 1..Len(call.calls) :
          IF call.calls[i].kind = PostRequestEvent
          THEN call.calls[i].cur = state.id /\ call.calls[i].cur # call.s0.id
          ELSE call.calls[i].cur = call.s0.id

\* A navigation from a loaded page succeeded with a post-request handler bound.
C3_Witness ==
    /\ Returned(call)
    /\ call.result = NoErr
    /\ call.s0 # EmptyState
    /\ \E i \in 1..Len(call.calls) : call.calls[i].kind = PostRequestEvent
    /\ \E i \in 1..Len(call.calls) : call.calls[i].kind = PreRequestEvent

C5_PostRequestErrorAfterCommit ==
    /\ (Returned(call) /\ HandlerErrorOf(call.result, PostRequestEvent)) =>
          /\ call.trace = <<"pre", "fetch", "parse", "push", "post">>
          /\ state.id = ncommit
          /\ state # call.s0
          /\ state.dom = Document(state.resp.url)
          /\ history = HistoryPush(call.h0, call.s0)
          /\ HistoryLen(history) = HistoryLen(call.h0) + 1
    /\ (Returned(call) /\ call.trace = <<"pre", "fetch", "parse", "push", "post">>
          /\ \E i \in 1..Len(events[PostRequestEvent]) : events[PostRequestEvent][i].fails) =>
          HandlerErrorOf(call.result, PostRequestEvent)
    /\ (call.op = "Back" /\ prev.kind = "postfailed") =>
          IF pageLoaded(prev.s0)
          THEN call.result.kind = "true" /\ state = prev.s0
          ELSE call.result.kind = "false" /\ state = call.s0

\* A Back right after a navigation, from a loaded page, whose post-request
\* handler returned an error.
C5_Witness ==
    /\ call.op = "Back"
    /\ prev.kind = "postfailed"
    /\ pageLoaded(prev.s0)
    /\ call.result.kind = "true"


(***************************************************************************)
(* C6.  A navigation that fails because its URL does not parse, its        *)
(* bookmark is not found, the transport returns an error or the document   *)
(* cannot be parsed leaves the history and the current State as they were  *)
(* before the call, and the navigation that follows it, when it succeeds,  *)
(* commits its State as any other does.                                    *)
(***************************************************************************)
C6_FailedNavigationKeepsHistory ==
    /\ (Returned(call) /\ call.result.kind \in NavigationErrors) =>
          /\ history = call.h0
          /\ state = call.s0
          /\ pc = "idle"
          /\ ~(\E i \in 1..Len(call.trace) : call.trace[i] \in {"push", "post"})
    /\ (Returned(call) /\ prev.kind = "failed" /\ call.result = NoErr) =>
          /\ history = HistoryPush(call.h0, call.s0)
          /\ state.id = ncommit
          /\ state.dom = Document(state.resp.url)
          /\ state.resp.status = 200

\* A navigation that succeeded right after one that failed.
C6_Witness ==
    /\ Returned(call)
    /\ prev.kind = "failed"
    /\ call.result = NoErr

(***************************************************************************)
(* C7.  A Reload that follows a successful Open directly hands the         *)
(* transport a request with the method, URL, headers and body of the       *)
(* request the Open sent; when it succeeds the history is one deeper, the  *)
(* State the Open made is its top, unchanged, and the current State is a   *)
(* new one.                                                                *)
(***************************************************************************)
C7_ReloadRepeatsRequest ==
    (call.op = "Reload" /\ prev.kind = "open") =>
        /\ call.sent # <<>> => call.sent = prev.sent
        /\ (call.done /\ call.result = NoErr) =>
              /\ Len(call.sent) = 1
              /\ HistoryLen(history) = HistoryLen(call.h0) + 1
              /\ HistoryTop(history) = call.s0
              /\ state.id # call.s0.id
              /\ state.id = ncommit
              /\ \A i \in 1..Len(call.h0) : history[i] = call.h0[i]

\* A Reload right after an Open has succeeded.
C7_Witness ==
    /\ call.op = "Reload"
    /\ prev.kind = "open"
    /\ call.done
    /\ call.result = NoErr
    /\ Len(prev.sent) = 1
    /\ prev.sent[1].header["User-Agent"] # <<>>

(***************************************************************************)
(* C8.  While no request of the session has succeeded, Reload returns      *)
(* PageNotLoaded at once: nothing is handed to the transport, no event is  *)
(* dispatched, and the history and the current State stay as they were;    *)
(* also after navigations that failed.                                     *)
(***************************************************************************)
C8_ReloadWithoutPage ==
    (call.op = "Reload" /\ ncommit = 0) =>
        /\ call.done
        /\ call.result.kind = "PageNotLoaded"
        /\ call.trace = <<>>
        /\ call.sent = <<>>
        /\ call.calls = <<>>
        /\ history = call.h0
        /\ state = call.s0
        /\ pc = "idle"

\* A Reload after a navigation that failed, handlers being bound.
C8_Witness ==
    /\ call.op = "Reload"
    /\ ncommit = 0
    /\ prev.kind = "failed"
    /\ events[PreRequestEvent] # <<>>
    /\ call.result.kind = "PageNotLoaded"

(***************************************************************************)
(* C9.  With FollowRedirects false, a navigation whose server answers with *)
(* a redirect returns a Location error, the redirect's target is not       *)
(* fetched, and the history and the current State stay as they were.       *)
(***************************************************************************)
C9_RedirectsDisabled ==
    (call.op \in Navigations /\ call.answer = "redirect" /\ ~attributes[FollowRedirects]) =>
        /\ call.done
        /\ call.result.kind = "LocationError"
        /\ call.followed = <<>>
        /\ Len(call.sent) = 1
        /\ history = call.h0
        /\ state = call.s0

\* Open of the redirecting URL from a loaded page, redirects being disabled.
C9_Witness ==
    /\ call.op = "Open"
    /\ call.arg = Moved
    /\ call.answer = "redirect"
    /\ ~attributes[FollowRedirects]
    /\ call.result.kind = "LocationError"
    /\ call.s0 # EmptyState

(***************************************************************************)
(* C10.  On either dispatcher, a dispatch of kind k invokes the handlers   *)
(* bound to k, in the order they were bound, up to and including the first *)
(* that returns an error, and no other handler; its result is that error,  *)
(* or no error when none of them fails.                                    *)
(***************************************************************************)
C10_DispatchFailFast ==
    dlog.on # "none" =>
        LET hs == dlog.bound[dlog.kind]
            F == {i \in 1..Len(hs) : hs[i].fails}
            n == IF F = {} THEN Len(hs) ELSE Min(F)
        IN /\ \A i \in 1..Len(hs) : hs[i].id = HandlerId(dlog.kind, i)
           /\ dlog.invoked = [i \in 1..n |-> HandlerId(dlog.kind, i)]
           /\ \A i \in 1..Len(dlog.invoked) : dlog.invoked[i].e = dlog.kind
           /\ dlog.err = IF F = {} THEN NoErr ELSE HandlerError(HandlerId(dlog.kind, Min(F)))

\* A dispatch on the event package's Dispatcher stopped at the first of two
\* handlers, a handler of another kind being bound to the browser's dispatcher.
C10_Witness ==
    /\ dlog.on = "event"
    /\ Len(dlog.bound[dlog.kind]) = 2
    /\ Len(dlog.invoked) = 1
    /\ dlog.err = HandlerError(HandlerId(dlog.kind, 1))

(***************************************************************************)
(* Forms: what a submission sent.                                          *)
(***************************************************************************)
Submissions == {"Submit", "FormClick"}
\* The encoded pairs of the first request a call handed to the transport:
\* the query of a GET, the body of any other request.
Payload(c) ==
    LET r == c.sent[1]
        p == IF r.method = "GET" THEN r.query ELSE r.body
    IN {p[i] : i \in 1..Len(p)}
\* name=value as it is encoded in a payload.
Pair(name, value) == <<QueryEscape(name), QueryEscape(value)>>

(***************************************************************************)
(* C11.  As claimed: when Submit follows Input(name, v) and sends a        *)
(* request, the payload contains name=v if and only if name is a defined   *)
(* field of the form; Input on a name that is no defined field returns     *)
(* ElementNotFound, and Input sends nothing.                               *)
(***************************************************************************)
C11_InputThenSubmit ==
    /\ (call.op = "Submit" /\ call.sent # <<>> /\ form.input.err # "none") =>
          (Pair(form.input.name, form.input.value) \in Payload(call)
             <=> stringInSlice(form.input.name, form.definedFields))
    /\ call.op = "Input" =>
          /\ call.sent = <<>>
          /\ call.trace = <<>>
          /\ (call.result.kind = "ElementNotFound"
                <=> ~stringInSlice(call.arg, form.definedFields))
          /\ (call.result = NoErr <=> stringInSlice(call.arg, form.definedFields))

(***************************************************************************)
(* C12.  As claimed: a submission that reaches the request, a form-submit  *)
(* handler being bound, has invoked that handler, before anything was      *)
(* handed to the transport.                                                *)
(***************************************************************************)
C12_FormSubmitEventDispatched ==
    (call.op \in Submissions /\ call.trace # <<>> /\ events[FormSubmitEvent] # <<>>) =>
        \E i \in 1..Len(call.calls) : call.calls[i].kind = FormSubmitEvent

(***************************************************************************)
(* C13.  As claimed: Form.Click(button) on a name that is no recorded      *)
(* button returns InvalidFormValue, sends nothing and leaves the form, the *)
(* history and the current State as they were; on a recorded button the    *)
(* payload it sends contains the button's name paired with its recorded    *)
(* value.                                                                  *)
(***************************************************************************)
C13_ClickSendsButton ==
    call.op = "FormClick" =>
        IF call.f0.buttons[call.arg] = <<>>
        THEN /\ call.result.kind = "InvalidFormValue"
             /\ call.sent = <<>>
             /\ call.trace = <<>>
             /\ form = call.f0
             /\ history = call.h0
             /\ state = call.s0
        ELSE /\ call.result.kind # "InvalidFormValue"
             /\ call.sent # <<>> =>
                   Pair(call.arg, call.f0.buttons[call.arg][1]) \in Payload(call)

(***************************************************************************)
(* C13, amended.  Form.Click(button) on a name that is no recorded button  *)
(* returns InvalidFormValue, sends nothing and leaves the form, the        *)
(* history and the current State as they were; on a recorded button whose  *)
(* name is not the empty string the payload it sends contains the name     *)
(* paired with the first value recorded for it; on a recorded button whose *)
(* name is the empty string the payload is that of the fields alone.       *)
(***************************************************************************)
C13_ClickSendsNamedButton ==
    call.op = "FormClick" =>
        IF call.f0.buttons[call.arg] = <<>>
        THEN /\ call.result.kind = "InvalidFormValue"
             /\ call.sent = <<>>
             /\ call.trace = <<>>
             /\ form = call.f0
             /\ history = call.h0
             /\ state = call.s0
        ELSE /\ call.result.kind # "InvalidFormValue"
             /\ form = call.f0
             /\ call.sent # <<>> =>
                   IF call.arg # ""
                   THEN Pair(call.arg, call.f0.buttons[call.arg][1]) \in Payload(call)
                   ELSE Payload(call) = {p \in Payload(call) : p[1] # ""}
                        /\ Payload(call) =
                              LET e == Encode(call.f0.fields)
                              IN {e[i] : i \in 1..Len(e)}

\* Click on the button go of the login form submitted it.
C13_Witness ==
    /\ call.op = "FormClick"
    /\ call.arg = "go"
    /\ call.done
    /\ call.result = NoErr
    /\ Pair("go", "Go") \in Payload(call)
    /\ Pair("user", "joe") \in Payload(call)

(***************************************************************************)
(* Browser.Click: what a call of Click did.                                *)
(***************************************************************************)
\* The selection of a Click: what its selector matched on the page it
\* clicked on.
Clicked(c) == Find(c.s0.dom, c.arg)
\* The Click did nothing: no click event, no request, history and current
\* State as they were.
ClickDidNothing(c) ==
    /\ c.done
    /\ c.calls = <<>>
    /\ c.trace = <<>>
    /\ c.sent = <<>>
    /\ history = c.h0
    /\ state = c.s0
\* The Click got as far as dispatching the click event.
ClickProceeded(c) == c.trace # <<>> /\ c.trace[1] = "click"

(***************************************************************************)
(* C14.  As claimed: Click proceeds only when its selector matches exactly *)
(* one element, an anchor with an href; it returns ElementNotFound when    *)
(* nothing or an element that is no anchor is matched and                  *)
(* AttributeNotFound when the anchor has no href, and then it did nothing. *)
(***************************************************************************)
C14_ClickExactlyOneAnchor ==
    call.op = "Click" =>
        LET sel == Clicked(call)
        IN /\ ClickProceeded(call) =>
                 Len(sel) = 1 /\ sel[1].tag = "a" /\ "href" \in sel[1].has
           /\ (Len(sel) = 0 \/ \E i \in 1..Len(sel) : sel[i].tag # "a") =>
                 call.result.kind = "ElementNotFound"
           /\ (Len(sel) = 1 /\ sel[1].tag = "a" /\ "href" \notin sel[1].has) =>
                 call.result.kind = "AttributeNotFound"
           /\ call.result.kind \in {"ElementNotFound", "AttributeNotFound"} =>
                 ClickDidNothing(call)

(***************************************************************************)
(* C14, amended.  Click returns ElementNotFound when its selector matches  *)
(* no element or no anchor, AttributeNotFound when the first matched       *)
(* element has no href, the parse error when that href does not parse, and *)
(* in each of these cases it did nothing; otherwise, whatever the number   *)
(* of elements matched, it dispatches the click event and builds the GET   *)
(* for the href of the first matched element.                              *)
(***************************************************************************)
C14_ClickFirstMatch ==
    call.op = "Click" =>
        LET sel == Clicked(call)
        IN IF Len(sel) = 0 \/ \A i \in 1..Len(sel) : sel[i].tag # "a"
           THEN call.result.kind = "ElementNotFound" /\ ClickDidNothing(call)
           ELSE IF "href" \notin sel[1].has
           THEN call.result.kind = "AttributeNotFound" /\ ClickDidNothing(call)
           ELSE IF ~UrlParses(sel[1].href)
           THEN call.result.kind = "URLParseError" /\ ClickDidNothing(call)
           ELSE /\ ClickProceeded(call)
                /\ call.result.kind \notin {"ElementNotFound", "AttributeNotFound"}
                /\ call.sent # <<>> =>
                      call.sent[1].url = ResolveUrl(call.s0, UrlParse(sel[1].href)).url

\* A Click whose selector matched two anchors went through.
C14_Witness ==
    /\ call.op = "Click"
    /\ call.arg = "a:contains('click')"
    /\ Len(Clicked(call)) = 2
    /\ call.done
    /\ call.result = NoErr
    /\ state.req.url = Page2

(***************************************************************************)
(* C15.  A Click that proceeds dispatches the click event first: the click *)
(* handlers, in order up to the first that fails, are handed the href      *)
(* resolved against the URL of the current page, with the page clicked     *)
(* from still current, before any pre-request handler runs; the request    *)
(* sent is a GET of that URL.  When the Click returns no error the page    *)
(* fetched is current, the page clicked from is the top of the history,    *)
(* and the Back that follows returns true and restores it.                 *)
(***************************************************************************)
C15_ClickThenGet ==
    /\ (call.op = "Click" /\ ClickProceeded(call)) =>
          LET href == ResolveReference(Url(call.s0), UrlParse(Clicked(call)[1].href))
              clicks == {i \in 1..Len(call.calls) : call.calls[i].kind = ClickEvent}
              others == {i \in 1..Len(call.calls) : call.calls[i].kind # ClickEvent}
              hs == events[ClickEvent]
              F == {i \in 1..Len(hs) : hs[i].fails}
          IN /\ Cardinality(clicks) = IF F = {} THEN Len(hs) ELSE Min(F)
             /\ \A i \in clicks :
                   /\ call.calls[i].id = HandlerId(ClickEvent, i)
                   /\ call.calls[i].args = href
                   /\ call.calls[i].cur = call.s0.id
                   /\ call.calls[i].browser = "bow"
                   /\ \A j \in others : i < j
             /\ IsAbs(href.url)
             /\ call.sent # <<>> =>
                   /\ call.sent[1].method = "GET"
                   /\ call.sent[1].url = href.url
                   /\ call.sent[1].query = href.query
                   /\ call.sent[1].body = <<>>
             /\ (call.done /\ call.result = NoErr) =>
                   /\ state.id = ncommit
                   /\ state.req.url = href.url
                   /\ state.dom = Document(state.resp.url)
                   /\ HistoryTop(history) = call.s0
                   /\ HistoryLen(history) = HistoryLen(call.h0) + 1
    /\ (call.op = "Back" /\ prev.kind = "clicked") =>
          /\ call.result.kind = "true"
          /\ state = prev.s0
          /\ pageLoaded(state)

\* A Back right after a Click, with a click and a pre-request handler
\* bound, that went from page 1 to another page.
C15_Witness ==
    /\ call.op = "Back"
    /\ prev.kind = "clicked"
    /\ state.req.url = Page1
    /\ prev.sent[1].url \in {Page2, Page3}
    /\ events[ClickEvent] # <<>>
    /\ events[PreRequestEvent] # <<>>

(***************************************************************************)
(* C16.  As claimed: the User-Agent header of every request a navigation   *)
(* hands to the transport, as the server reads it, is the user agent set   *)
(* last.                                                                   *)
(***************************************************************************)
C16_UserAgentIsLatest ==
    (call.op \in {"Open", "Post", "Click"}) =>
        \A i \in 1..Len(call.sent) :
            HeaderGet(call.sent[i].header, "User-Agent") = userAgent

(***************************************************************************)
(* C17.  As claimed: every request a navigation hands to the transport     *)
(* carries the headers the caller added; it carries a Referer only when    *)
(* the send-referer attribute is set and the navigation supplied a referer *)
(* (a Click), an Authorization only when credentials are set, and a        *)
(* Content-Type only when it is a POST.                                    *)
(***************************************************************************)
C17_HeadersOfThisRequestOnly ==
    (call.op \in {"Open", "Post", "Click"}) =>
        \A i \in 1..Len(call.sent) :
            LET h == call.sent[i].header
            IN /\ h["X-Testing-1"] = hdrHeap[headers]["X-Testing-1"]
               /\ h["User-Agent"] # <<>>
               /\ h["Referer"] # <<>> => (attributes[SendReferer] /\ call.op = "Click")
               /\ h["Authorization"] # <<>> => auth.Username # ""
               /\ h["Content-Type"] # <<>> => call.sent[i].method = "POST"

(***************************************************************************)
(* C18.  An OpenBookmark(name) that follows a successful Bookmark(name)    *)
(* starts a navigation; the request it hands to the transport is a GET for *)
(* the URL of the page that was current when Bookmark was called, whatever *)
(* the caller did in between; when it returns no error the State that was  *)
(* current is on top of a history one longer, and the current State is a   *)
(* new one, made from that request.                                        *)
(***************************************************************************)
C18_OpenBookmarkGetsMarkedPage ==
    (call.op = "OpenBookmark" /\ marked[call.arg] # "") =>
        /\ call.result.kind \notin {"BookmarkNotFound", "URLParseError"}
        /\ \A i \in 1..Len(call.trace) : call.trace[i] = "fetch" => Len(call.sent) >= 1
        /\ Len(call.sent) >= 1 =>
              /\ call.sent[1].method = "GET"
              /\ call.sent[1].body = <<>>
              /\ UrlString([url |-> call.sent[1].url, query |-> call.sent[1].query])
                     = marked[call.arg]
        /\ (call.done /\ call.result = NoErr) =>
              /\ history = HistoryPush(call.h0, call.s0)
              /\ state.id = ncommit
              /\ state.id \notin {call.h0[i].id : i \in 1..Len(call.h0)} \cup {call.s0.id}
              /\ UrlString(Url(state)) = marked[call.arg]

\* The bookmark of Page1 is opened with no error after the caller went on to
\* Page2, and Page1 is current again.
C18_Witness ==
    /\ call.op = "OpenBookmark"
    /\ call.done
    /\ call.result = NoErr
    /\ marked[call.arg] = Page1
    /\ call.s0.req.url = Page2
    /\ state.req.url = Page1
    /\ HistoryTop(history) = call.s0

(***************************************************************************)
(* C19.  A navigation that returns no error has invoked every handler      *)
(* bound to the post-request event once, in the order of binding, each     *)
(* with an Event of Type PostRequestEvent whose Browser is the session and *)
(* whose Args is the response of that navigation, which is not nil; a      *)
(* navigation that has not committed a State has invoked none of them.     *)
(***************************************************************************)
C19_PostRequestEventPayload ==
    LET IsPost(x) == x.kind = PostRequestEvent
        posts == SelectSeq(call.calls, IsPost)
    IN /\ (Returned(call) /\ call.result = NoErr) =>
              /\ Len(posts) = Len(events[PostRequestEvent])
              /\ \A i \in 1..Len(posts) :
                    /\ posts[i].id = HandlerId(PostRequestEvent, i)
                    /\ posts[i].browser = "bow"
                    /\ posts[i].args # NoResp
                    /\ posts[i].args = state.resp
                    /\ posts[i].args.url =
                          IF call.followed = <<>> THEN call.sent[Len(call.sent)].url
                          ELSE call.followed[Len(call.followed)]
       /\ (call.op \in Navigations
             /\ \A i \in 1..Len(call.trace) : call.trace[i] # "push") =>
              posts = <<>>

\* A navigation from a loaded page returned no error with as many
\* post-request handlers bound as the bound allows.
C19_Witness ==
    /\ Returned(call)
    /\ call.result = NoErr
    /\ call.s0 # EmptyState
    /\ Len(events[PostRequestEvent]) = MaxHandlers
    /\ Len(call.calls) = MaxHandlers

(***************************************************************************)
(* C20.  As claimed: with a caller that makes its calls one after the      *)
(* other, the httpRequest of the refresh goroutine's Reload and an         *)
(* httpRequest of the caller are never in progress together.               *)
(***************************************************************************)
C20_OneNavigationInFlight ==
    ~(pc # "idle" /\ other.pc # "idle")

(***************************************************************************)
(* C21.  As claimed: once a navigation of the caller has entered           *)
(* httpRequest and returned without scheduling a timer of its own, no      *)
(* refresh timer is pending, whatever the navigation returned.             *)
(***************************************************************************)
C21_PendingTimerCancelled ==
    (call.op \in Navigations /\ call.done /\ call.trace # <<>>
       /\ \A i \in 1..Len(call.trace) : call.trace[i] # "push") =>
        refresh # "running"

(***************************************************************************)
(* C22.  As claimed: the request of a State keeps the headers it had when  *)
(* the State was created.  When the call before this one was an Open that  *)
(* returned no error, the State that was current when this call began is   *)
(* the one that Open created, from the request it handed to the transport. *)
(***************************************************************************)
C22_StateRequestKeepsHeaders ==
    (prev.kind = "open" /\ call.op \in {"Open", "Post", "Click"}) =>
        /\ Snapshot(call.s0.req).header = prev.sent[Len(prev.sent)].header
        /\ Snapshot(call.s0.req).method = prev.sent[Len(prev.sent)].method
        /\ Snapshot(call.s0.req).url = prev.sent[Len(prev.sent)].url

(***************************************************************************)
(* C23.  As claimed: no step of the session removes or moves a handler:    *)
(* for every event type, the handlers bound before the step are, in the    *)
(* same order, the first of the handlers bound after it.                   *)
(***************************************************************************)
C23_HandlersAppendOnly ==
    [][\A e \in EventTypes :
          /\ Len(events'[e]) >= Len(events[e])
          /\ SubSeq(events'[e], 1, Len(events[e])) = events[e]]_vars

(***************************************************************************)
(* C24.  As claimed: Forms returns one form that is not nil for each form  *)
(* element of the current page, in document order, and nothing for a page  *)
(* without forms.                                                          *)
(***************************************************************************)
C24_FormsOnePerElement ==
    call.op = "Forms" =>
        /\ Len(ret) = Len(state.dom.forms)
        /\ \A i \in 1..Len(ret) :
              /\ ret[i] # NoForm
              /\ ret[i].selection = state.dom.forms[i]

(***************************************************************************)
(* C25.  As claimed: Links (Images) returns one entry for each a (img)     *)
(* element of the current page that has the href (src) attribute.          *)
(***************************************************************************)
C25_OneEntryPerAttribute ==
    /\ call.op = "Links" =>
          LET Has(el) == el.tag = "a" /\ "href" \in el.has
          IN Len(ret) = Len(SelectSeq(state.dom.elems, Has))
    /\ call.op = "Images" =>
          LET Has(el) == el.tag = "img" /\ "src" \in el.has
          IN Len(ret) = Len(SelectSeq(state.dom.elems, Has))

(***************************************************************************)
(* C25, amended.  Links (Images) returns, in document order, one entry for *)
(* each a (img) element of the current page that has the href (src)        *)
(* attribute with a value url.Parse accepts: its URL is the value itself   *)
(* when that is absolute and the value on the host of the current page     *)
(* otherwise, its ID is the id attribute or "" without one, its Text is    *)
(* the text of the element (its Alt and Title are the attributes or "").   *)
(* Elements without the attribute, or with a value that does not parse,    *)
(* have no entry.  The call leaves the history and the current State as    *)
(* they were.                                                              *)
(***************************************************************************)
C25_OneEntryPerParsedAttribute ==
    LET Expected(v) == IF IsAbs(v) THEN v ELSE Origin(state.req.url) \o v
        IdOf(el) == IF "id" \in el.has THEN el.id ELSE ""
    IN /\ call.op = "Links" =>
             LET Has(el) == el.tag = "a" /\ "href" \in el.has /\ UrlParses(el.href)
                 els == SelectSeq(state.dom.elems, Has)
             IN /\ Len(ret) = Len(els)
                /\ \A i \in 1..Len(els) :
                      /\ UrlString(ret[i].URL) = Expected(els[i].href)
                      /\ ret[i].ID = IdOf(els[i])
                      /\ ret[i].Text = els[i].text
                /\ state = call.s0
                /\ history = call.h0
       /\ call.op = "Images" =>
             LET Has(el) == el.tag = "img" /\ "src" \in el.has /\ UrlParses(el.src)
                 els == SelectSeq(state.dom.elems, Has)
             IN /\ Len(ret) = Len(els)
                /\ \A i \in 1..Len(els) :
                      /\ UrlString(ret[i].URL) = Expected(els[i].src)
                      /\ ret[i].ID = IdOf(els[i])
                      /\ ret[i].Alt = (IF "alt" \in els[i].has THEN els[i].alt ELSE "")
                      /\ ret[i].Title = (IF "title" \in els[i].has THEN els[i].title ELSE "")
                /\ state = call.s0
                /\ history = call.h0

\* Links on the page of the tests, reached by a Back: the two links of
\* TestLinks.
C25_Witness ==
    /\ call.op = "Links"
    /\ state.req.url = Page1
    /\ HistoryLen(history) = 1
    /\ state.id = 1
    /\ ncommit = MaxNav
    /\ Len(ret) = 2
    /\ UrlString(ret[1].URL) = Page2
    /\ ret[1].ID = ""
    /\ ret[1].Text = "click"
    /\ UrlString(ret[2].URL) = Page3
    /\ ret[2].ID = "page3"

(***************************************************************************)
(* C26.  As claimed: a Reload on a State that a Post created hands the     *)
(* transport a POST for the URL of that State's request, with a body the   *)
(* Post was given (the bodies callers post are not empty).                 *)
(***************************************************************************)
C26_ReloadRepeatsPost ==
    (call.op = "Reload" /\ call.s0.req.method = "POST") =>
        \A i \in 1..Len(call.sent) :
            /\ call.sent[i].method = "POST"
            /\ call.sent[i].url = call.s0.req.url
            /\ call.sent[i].body \in PostBodies

(***************************************************************************)
(* C27.  As claimed: when a handler bound to the click event returns an    *)
(* error, a Click that dispatched the event has returned, and what it      *)
(* returned is that handler's error.                                       *)
(***************************************************************************)
C27_ClickHandlerErrorReturned ==
    (call.op = "Click" /\ call.trace # <<>>
       /\ \E i \in 1..Len(events[ClickEvent]) : events[ClickEvent][i].fails) =>
        /\ call.done
        /\ HandlerErrorOf(call.result, ClickEvent)

(***************************************************************************)
(* C28.  As claimed: the defined fields of a Form are, in document order,  *)
(* the names of the controls of its form element that have a name          *)
(* attribute and are no input or button of type submit, with or without a  *)
(* type attribute; the names of the other named controls are its buttons.  *)
(***************************************************************************)
C28_EveryNamedControlRecorded ==
    call.op = "Forms" =>
        \A k \in 1..Len(ret) :
            ret[k] # NoForm =>
                LET IsButton(c) == c.tag \in {"input", "button"} /\ "type" \in c.has
                                      /\ c.type = "submit"
                    IsField(c) == "name" \in c.has /\ ~IsButton(c)
                    named == SelectSeq(ret[k].selection.controls, IsField)
                IN /\ ret[k].definedFields = [i \in 1..Len(named) |-> named[i].name]
                   /\ \A i \in 1..Len(ret[k].selection.controls) :
                         LET c == ret[k].selection.controls[i]
                         IN ("name" \in c.has /\ IsButton(c)) =>
                                ret[k].buttons[c.name] # <<>>

C30_BackOnlyPops ==
    [][(pc = "idle" /\ call'.op = "Back") =>
          /\ pc' = "idle"
          /\ call'.sent = <<>>
          /\ call'.calls = <<>>
          /\ call'.trace = <<>>
          /\ nnav' = nnav
          /\ ncommit' = ncommit
          /\ frame' = frame
          /\ hdrHeap' = hdrHeap
          /\ events' = events
          /\ refresh' = refresh
          /\ IF HistoryLen(history) > 1
             THEN /\ call'.result.kind = "true"
                  /\ state' = HistoryTop(history)
                  /\ history' = SubSeq(history, 1, Len(history) - 1)
                  /\ HistoryLen(history') = HistoryLen(history) - 1
             ELSE /\ call'.result.kind = "false"
                  /\ state' = state
                  /\ history' = history]_vars

\* A Back returned true on a session with a pre-request and a post-request
\* handler bound, after navigations that invoked them.
C30_Witness ==
    /\ call.op = "Back"
    /\ call.result.kind = "true"
    /\ events[PreRequestEvent] # <<>>
    /\ events[PostRequestEvent] # <<>>
    /\ state = HistoryTop(call.h0)
    /\ HistoryLen(history) = 1

(***************************************************************************)
(* C31.  Once a Back has returned true and the next navigation that        *)
(* creates a State has succeeded, the State that was current before the    *)
(* Back is neither the current State nor on the history, so that no        *)
(* sequence of Backs reaches it, now or after later navigations; and the   *)
(* first call of Back after that navigation returns true and makes current *)
(* the State the earlier Back had restored.                                *)
(***************************************************************************)
C31_ForwardHistoryDiscarded ==
    [][/\ backed'.stage \in {"navigated", "later"} =>
             /\ state' # backed'.left
             /\ \A i \in 1..Len(history') : history'[i] # backed'.left
       /\ (backed.stage = "navigated" /\ pc = "idle" /\ call'.op = "Back") =>
             /\ call'.result.kind = "true"
             /\ state' = backed.restored]_vars

\* Two pages were opened, Back returned to the first, a third page was
\* opened from it without error, and Back has returned true again: the
\* first page is current, and it is the third that this Back has left.
C31_Witness ==
    /\ call.op = "Back"
    /\ call.result.kind = "true"
    /\ pred = <<0, 1, 1>>
    /\ backed.stage = "backed"
    /\ backed.left.id = 3
    /\ backed.restored.id = 1
    /\ state.id = 1
    /\ call.s0.id = 3
    /\ \A i \in 1..Len(history) : history[i].id # 2

(***************************************************************************)
(* C32.  The request a submission of a Form hands to the transport goes    *)
(* to the URL Action() returns, the action resolved when the Form was      *)
(* built against the page it was built from, whatever page is current      *)
(* when the Form is submitted.                                             *)
(***************************************************************************)
C32_SubmittedToAction ==
    (call.op \in {"Submit", "FormClick"} /\ call.sent # <<>>) =>
        call.sent[1].url = call.f0.action.url

====
